---- MODULE Spec2Model ----
(***************************************************************************)
(* A model of the trajectory-data plugin: the on-disk dataset (dataset     *)
(* meta, trajectory meta, shard files), the bulk loader                    *)
(* UTrajectoryDataLoader (LoadTrajectoriesSync / LoadTrajectoriesAsync /   *)
(* CancelAsyncLoad / UnloadAll and the pipeline LoadTrajectoriesInternal)  *)
(* with its background thread FTrajectoryLoadTask and the game-thread      *)
(* callback queue, and the query tasks FTrajectoryQueryTask.               *)
(***************************************************************************)
EXTENDS Integers, Sequences, FiniteSets, TLC

(***************************************************************************)
(* Bounds of the model.                                                    *)
(***************************************************************************)
\* TimeStepIntervalSize of the generated datasets (samples per shard).
SmallIntervalSize == 2
\* Largest SampleRate a caller passes (0 is the invalid rate).
MaxSampleRate == 2
\* Load calls (sync + async) a behaviour of the loader specification makes.
MaxLoads == 3
\* Load calls a behaviour of the fairly scheduled loader makes.
MaxFairLoads == 2
\* Most trajectory records in the metadata of a selection dataset.
MaxTrajectories == 4
\* Threads that call the memory estimator, one call each.
MaxEstimatorThreads == 2
\* Query tasks created in a behaviour of the query task list.
MaxQueryTasks == 3

(***************************************************************************)
(* Program constants.                                                      *)
(***************************************************************************)
\* static constexpr int32 BytesPerSample = sizeof(FVector): 12 by the source's
\* own comment (3 floats).
BytesPerSample == 12
\* "Approximate overhead per trajectory" of ValidateLoadParams.
TrajMetaOverhead == 128
\* sizeof(FLoadedTrajectory) in the MemoryUsed sum (a platform value; any
\* positive number gives the same behaviour).
SizeofLoadedTrajectory == 64

Min(a, b) == IF a < b THEN a ELSE b
Max(a, b) == IF a > b THEN a ELSE b
\* FMath::Clamp(X, Min, Max)
Clamp(x, lo, hi) == IF x < lo THEN lo ELSE IF x < hi THEN x ELSE hi

\* The set of elements of a sequence.
Range(s) == {s[i] : i \in DOMAIN s}

(***************************************************************************)
(* The on-disk format.  A stored position is a record: nan says whether    *)
(* the three floats are the NaN sentinel; id and t name the trajectory and *)
(* the global time step the converter wrote the slot for (the time step of *)
(* a loaded sample is not stored by the program: the model carries it so   *)
(* that the order of loaded samples can be stated).                        *)
(***************************************************************************)
\* FPositionSampleBinary
PositionSample(id, t, nan) == [id |-> id, t |-> t, nan |-> nan]
\* FMath::IsNaN(X) || IsNaN(Y) || IsNaN(Z)
IsNaNSample(p) == p.nan

\* FDatasetMetaBinary (the fields the loader reads)
DatasetMeta(first, last, size) ==
    [Magic |-> "TDSH", FirstTimeStep |-> first, LastTimeStep |-> last,
     TimeStepIntervalSize |-> size]

\* FTrajectoryMetaBinary (the fields the loader reads)
TrajectoryMeta(id, s, e) ==
    [TrajectoryId |-> id, StartTimeStep |-> s, EndTimeStep |-> e]

\* First time step of global interval g.
IntervalStart(meta, g) == meta.FirstTimeStep + g * meta.TimeStepIntervalSize

\* One entry of a shard file, as a converter writes it for trajectory tm with
\* NaN gaps at the time steps nans: FTrajectoryEntryHeaderBinary followed by
\* TimeStepIntervalSize positions, slots outside the valid range holding NaN.
ShardEntry(meta, tm, nans, g) ==
    LET a  == IntervalStart(meta, g)
        b  == a + meta.TimeStepIntervalSize - 1
        lo == Max(tm.StartTimeStep, a)
        hi == Min(tm.EndTimeStep, b)
    IN  [TrajectoryId |-> tm.TrajectoryId,
         StartTimeStepInInterval |-> lo - a,
         ValidSampleCount |-> hi - lo + 1,
         Positions |-> [k \in 0..(meta.TimeStepIntervalSize - 1) |->
                          PositionSample(tm.TrajectoryId, a + k,
                              a + k < lo \/ a + k > hi \/ a + k \in nans)]]

\* Whether trajectory tm has samples in global interval g.
Touches(meta, tm, g) ==
    /\ tm.EndTimeStep >= IntervalStart(meta, g)
    /\ tm.StartTimeStep <= IntervalStart(meta, g) + meta.TimeStepIntervalSize - 1

RECURSIVE ShardEntries(_, _, _, _)
\* The entries of the shard of interval g: one per trajectory that touches it,
\* in metadata order.
ShardEntries(meta, tms, nansOf, g) ==
    IF tms = <<>> THEN <<>>
    ELSE LET rest == ShardEntries(meta, Tail(tms), nansOf, g)
             tm   == Head(tms)
         IN  IF Touches(meta, tm, g)
             THEN <<ShardEntry(meta, tm, nansOf[tm.TrajectoryId], g)>> \o rest
             ELSE rest

\* A shard file shard-<fileIndex>.bin: FDataBlockHeaderBinary and the entries.
ShardFile(meta, tms, nansOf, fileIndex, g, magic) ==
    [FileIndex |-> fileIndex, Magic |-> magic, GlobalIntervalIndex |-> g,
     TimeStepIntervalSize |-> meta.TimeStepIntervalSize,
     Entries |-> ShardEntries(meta, tms, nansOf, g)]

\* The files of a dataset directory in the order IterateDirectory reports them:
\* file i-1 carries the header of interval layout[i]; fault names one file whose
\* magic is corrupted or which is missing (file -1: none).
ShardFiles(meta, tms, nansOf, layout, fault) ==
    LET all == [i \in 1..Len(layout) |->
                  ShardFile(meta, tms, nansOf, i - 1, layout[i],
                      IF fault.kind = "badmagic" /\ fault.file = i - 1
                      THEN "XXXX" ELSE "TDDB")]
        Present(f) == ~(fault.kind = "missing" /\ fault.file = f.FileIndex)
    IN  SelectSeq(all, Present)

\* A dataset directory: dataset-meta.bin, dataset-trajmeta.bin, shard-*.bin.
Dataset(meta, tms, nansOf, layout, fault) ==
    [Meta |-> meta, TrajMetas |-> tms,
     Files |-> ShardFiles(meta, tms, nansOf, layout, fault)]

NoFault == [kind |-> "none", file |-> -1]

(***************************************************************************)
(* TMap<K, V>: a function on the set of keys; Add replaces the value of a  *)
(* key that is already there.                                              *)
(***************************************************************************)
EmptyMap == <<>>
MapAdd(m, k, v) == [x \in (DOMAIN m) \cup {k} |-> IF x = k THEN v ELSE m[x]]
MapContains(m, k) == k \in DOMAIN m

RECURSIVE SortSet(_)
\* TArray<int32>::Sort() of distinct keys: ascending.
SortSet(S) ==
    IF S = {} THEN <<>>
    ELSE LET m == CHOOSE x \in S : \A y \in S : x <= y
         IN  <<m>> \o SortSet(S \ {m})

(***************************************************************************)
(* Binary format codecs.                                                   *)
(***************************************************************************)
\* UTrajectoryDataLoader::ReadDatasetMeta: the magic check.
ReadDatasetMeta(d) == d.Meta.Magic = "TDSH"

\* UTrajectoryDataLoader::ReadTrajectoryMeta: fails on an empty file.
ReadTrajectoryMeta(d) == Len(d.TrajMetas) > 0

\* A header read without the magic check.
ReadShardHeaderUnchecked(file) == TRUE

\* UTrajectoryDataLoader::ReadShardHeaderMapped: the magic check.
ReadShardHeaderMapped(file) == file.Magic = "TDDB"

(***************************************************************************)
(* Shard discovery.                                                        *)
(***************************************************************************)
\* FShardInfo built by DiscoverShardFiles for the file at position path.
ShardInfo(d, path) ==
    LET h == d.Files[path]
        start == d.Meta.FirstTimeStep
                   + (h.GlobalIntervalIndex * d.Meta.TimeStepIntervalSize)
    IN  [GlobalIntervalIndex |-> h.GlobalIntervalIndex,
         StartTimeStep |-> start,
         EndTimeStep |-> start + d.Meta.TimeStepIntervalSize - 1,
         FilePath |-> path]

RECURSIVE DiscoverFrom(_, _, _)
DiscoverFrom(d, path, table) ==
    IF path > Len(d.Files) THEN table
    ELSE IF ~ReadShardHeaderMapped(d.Files[path])
         THEN DiscoverFrom(d, path + 1, table)
         ELSE DiscoverFrom(d, path + 1,
                  MapAdd(table, d.Files[path].FileIndex, ShardInfo(d, path)))

\* UTrajectoryDataLoader::DiscoverShardFiles: TMap FileIndex -> FShardInfo.
DiscoverShardFiles(d) == DiscoverFrom(d, 1, EmptyMap)

\* A range test with strict comparisons.
ContainsTimeRangeStrict(info, RangeStart, RangeEnd) ==
    info.EndTimeStep > RangeStart /\ info.StartTimeStep < RangeEnd

\* FShardInfo::ContainsTimeRange
ContainsTimeRange(info, RangeStart, RangeEnd) ==
    info.EndTimeStep >= RangeStart /\ info.StartTimeStep <= RangeEnd

\* The filtered shard keys of LoadTrajectoriesInternal, after RelevantShards.Sort().
RelevantShardsOf(table, StartTime, EndTime) ==
    SortSet({k \in DOMAIN table : ContainsTimeRange(table[k], StartTime, EndTime)})

(***************************************************************************)
(* Trajectory selection.                                                   *)
(***************************************************************************)
\* FTrajectoryLoadParams
LoadParams(start, end, rate, strategy, n, selections) ==
    [StartTimeStep |-> start, EndTimeStep |-> end, SampleRate |-> rate,
     SelectionStrategy |-> strategy, NumTrajectories |-> n,
     TrajectorySelections |-> selections]

RECURSIVE DistributedFrom(_, _, _, _)
\* The loop of the Distributed case: i += Step while fewer than NumToLoad ids.
DistributedFrom(TrajMetas, i, Step, left) ==
    IF i >= Len(TrajMetas) \/ left <= 0 THEN <<>>
    ELSE <<TrajMetas[i + 1].TrajectoryId>>
           \o DistributedFrom(TrajMetas, i + Step, Step, left - 1)

\* A FirstN loop that runs once more than NumToLoad (i <= NumToLoad).
FirstNOffByOne(Params, TrajMetas) ==
    [i \in 1..Min(Params.NumTrajectories + 1, Len(TrajMetas)) |->
        TrajMetas[i].TrajectoryId]

\* A FirstN loop that walks the metadata from its end.
LastN(Params, TrajMetas) ==
    LET NumToLoad == Min(Params.NumTrajectories, Len(TrajMetas))
    IN  [i \in 1..NumToLoad |-> TrajMetas[Len(TrajMetas) + 1 - i].TrajectoryId]

\* A Distributed loop whose Step is always 1.
DistributedStrideOne(Params, TrajMetas) ==
    DistributedFrom(TrajMetas, 0, 1, Min(Params.NumTrajectories, Len(TrajMetas)))

\* UTrajectoryDataLoader::BuildTrajectoryIdList
BuildTrajectoryIdList(Params, TrajMetas) ==
    LET NumToLoad == Min(Params.NumTrajectories, Len(TrajMetas))
        AvailableIds == {TrajMetas[i].TrajectoryId : i \in DOMAIN TrajMetas}
        Available(id) == id \in AvailableIds
    IN  CASE Params.SelectionStrategy = "FirstN" ->
               [i \in 1..NumToLoad |-> TrajMetas[i].TrajectoryId]
          [] Params.SelectionStrategy = "Distributed" ->
               IF NumToLoad > 0 /\ Len(TrajMetas) > 0
               THEN DistributedFrom(TrajMetas, 0,
                        Max(1, Len(TrajMetas) \div NumToLoad), NumToLoad)
               ELSE <<>>
          [] OTHER ->
               SelectSeq(Params.TrajectorySelections, Available)

RECURSIVE TrajMetaMapFrom(_, _, _)
TrajMetaMapFrom(TrajMetas, i, m) ==
    IF i > Len(TrajMetas) THEN m
    ELSE TrajMetaMapFrom(TrajMetas, i + 1,
             MapAdd(m, TrajMetas[i].TrajectoryId, TrajMetas[i]))

\* TMap<int64, FTrajectoryMetaBinary> TrajMetaMap of LoadTrajectoriesInternal.
TrajMetaMapOf(d) == TrajMetaMapFrom(d.TrajMetas, 1, EmptyMap)

(***************************************************************************)
(* The load pipeline: the pure parts of LoadTrajectoriesInternal.          *)
(***************************************************************************)
\* StartTime / EndTime of a load: a negative parameter means the dataset's.
StartTimeOf(d, Params) ==
    IF Params.StartTimeStep < 0 THEN d.Meta.FirstTimeStep ELSE Params.StartTimeStep
EndTimeOf(d, Params) ==
    IF Params.EndTimeStep < 0 THEN d.Meta.LastTimeStep ELSE Params.EndTimeStep

\* TrajIdToEntryIndex.Find(TrajId) of one shard: the 0-based index of the last
\* entry carrying the id (TMap::Add replaces), -1 when the shard has none.
EntryIndexOf(file, TrajId) ==
    LET hits == {i \in DOMAIN file.Entries : file.Entries[i].TrajectoryId = TrajId}
    IN  IF hits = {} THEN -1
        ELSE (CHOOSE i \in hits : \A j \in hits : j <= i) - 1

\* A Memcpy that starts one slot late.
BulkCopyLate(entry, LoadStart, LoadEnd) ==
    [j \in 1..(LoadEnd - LoadStart - 1) |-> entry.Positions[LoadStart + j]]

\* FAST PATH (SampleRate == 1): one Memcpy of the slots LoadStart..LoadEnd-1.
BulkCopy(entry, LoadStart, LoadEnd) ==
    [j \in 1..(LoadEnd - LoadStart) |-> entry.Positions[LoadStart + j - 1]]

RECURSIVE StridedCopy(_, _, _, _)
\* SLOW PATH: every SampleRate-th slot from TimeStepIdx, NaN samples left out.
StridedCopy(entry, TimeStepIdx, LoadEnd, SampleRate) ==
    IF TimeStepIdx >= LoadEnd THEN <<>>
    ELSE (IF IsNaNSample(entry.Positions[TimeStepIdx]) THEN <<>>
          ELSE <<entry.Positions[TimeStepIdx]>>)
         \o StridedCopy(entry, TimeStepIdx + SampleRate, LoadEnd, SampleRate)

\* The copy of the slots [LoadStart, LoadEnd) of an entry at a sample rate.
CopySamples(entry, LoadStart, LoadEnd, SampleRate) ==
    IF SampleRate = 1 THEN BulkCopy(entry, LoadStart, LoadEnd)
    ELSE StridedCopy(entry, LoadStart, LoadEnd, SampleRate)

\* The body of the inner ParallelFor for one trajectory of one shard: the
\* samples it extracts (ShardSamples), empty on each early return.
ExtractShardSamples(d, Params, info, TrajId) ==
    LET file    == d.Files[info.FilePath]
        metaMap == TrajMetaMapOf(d)
        EntryIdx == EntryIndexOf(file, TrajId)
    IN  IF ~MapContains(metaMap, TrajId) THEN <<>>
        ELSE IF \/ metaMap[TrajId].EndTimeStep < info.StartTimeStep
                \/ metaMap[TrajId].StartTimeStep > info.EndTimeStep THEN <<>>
        ELSE IF EntryIdx < 0 THEN <<>>
        ELSE
          LET entry == file.Entries[EntryIdx + 1]
              ValidRangeStart == entry.StartTimeStepInInterval
              ValidRangeEnd == entry.StartTimeStepInInterval + entry.ValidSampleCount
              LoadStart0 == IF Params.StartTimeStep >= 0
                            THEN Max(ValidRangeStart,
                                     Params.StartTimeStep - info.StartTimeStep)
                            ELSE ValidRangeStart
              LoadEnd0 == IF Params.EndTimeStep >= 0
                          THEN Min(ValidRangeEnd,
                                   Params.EndTimeStep - info.StartTimeStep + 1)
                          ELSE ValidRangeEnd
              LoadStart == Clamp(LoadStart0, 0, file.TimeStepIntervalSize)
              LoadEnd == Clamp(LoadEnd0, 0, file.TimeStepIntervalSize)
          IN  IF LoadStart >= LoadEnd THEN <<>>
              ELSE CopySamples(entry, LoadStart, LoadEnd, Params.SampleRate)

\* FLoadedTrajectory as LoadTrajectoriesInternal initialises it.
LoadedTrajectory(tm) ==
    [TrajectoryId |-> tm.TrajectoryId, StartTimeStep |-> tm.StartTimeStep,
     EndTimeStep |-> tm.EndTimeStep, Samples |-> <<>>]

RECURSIVE InitTrajectoryMap(_, _, _, _)
\* TrajectoryMap: one FLoadedTrajectory per requested id found in the metadata.
InitTrajectoryMap(metaMap, TrajectoryIds, i, m) ==
    IF i > Len(TrajectoryIds) THEN m
    ELSE InitTrajectoryMap(metaMap, TrajectoryIds, i + 1,
             IF MapContains(metaMap, TrajectoryIds[i])
             THEN MapAdd(m, TrajectoryIds[i],
                         LoadedTrajectory(metaMap[TrajectoryIds[i]]))
             ELSE m)

\* The merge of one shard's TrajectorySamples into the TrajectoryMap:
\* LoadedTraj->Samples.Append(ShardSamples) for each id the map holds.
MergeShard(TrajectoryMap, TrajectorySamples) ==
    [id \in DOMAIN TrajectoryMap |->
        IF MapContains(TrajectorySamples, id)
        THEN [TrajectoryMap[id] EXCEPT !.Samples = @ \o TrajectorySamples[id]]
        ELSE TrajectoryMap[id]]

RECURSIVE MergeFrom(_, _, _)
\* The sequential merge: the shard results in the order of the ShardResults array.
MergeFrom(TrajectoryMap, ShardResults, i) ==
    IF i > Len(ShardResults) THEN TrajectoryMap
    ELSE MergeFrom(MergeShard(TrajectoryMap, ShardResults[i]), ShardResults, i + 1)

RECURSIVE SumOver(_, _)
SumOver(f, S) ==
    IF S = {} THEN 0
    ELSE LET x == CHOOSE y \in S : TRUE IN f[x] + SumOver(f, S \ {x})

\* MemoryUsed: sizeof(FLoadedTrajectory) + Samples.Num() * sizeof(FVector), summed.
MemoryUsedOf(TrajectoryMap) ==
    SumOver([id \in DOMAIN TrajectoryMap |->
                SizeofLoadedTrajectory
                  + Len(TrajectoryMap[id].Samples) * BytesPerSample],
            DOMAIN TrajectoryMap)

\* FTrajectoryLoadResult
LoadResult(ok, msg, trajs, mem, start, end) ==
    [bSuccess |-> ok, ErrorMessage |-> msg, Trajectories |-> trajs,
     MemoryUsedBytes |-> mem, LoadedStartTimeStep |-> start,
     LoadedEndTimeStep |-> end]

FailedResult(msg) == LoadResult(FALSE, msg, EmptyMap, 0, 0, 0)

(***************************************************************************)
(* Memory admission: UTrajectoryDataMemoryEstimator and ValidateLoadParams. *)
(***************************************************************************)
RECURSIVE Pow2(_)
Pow2(n) == IF n = 0 THEN 1 ELSE 2 * Pow2(n - 1)

RECURSIVE BitLength(_)
\* The number of binary digits of a natural number.
BitLength(x) == IF x = 0 THEN 0 ELSE 1 + BitLength(x \div 2)

\* The bits of a float's significand.
FloatMantissaBits == 24

\* A byte count sent through FTrajectoryDataMemoryInfo and back:
\* static_cast<int64>(static_cast<float>(Bytes * BytesToGB) / BytesToGB).
\* Scaling by 2^30 is exact, so this is the rounding of Bytes to a float's 24
\* significant bits (to nearest, ties to even), of either sign.
BytesViaFloatGB(Bytes) ==
    LET mag  == IF Bytes < 0 THEN 0 - Bytes ELSE Bytes
        unit == Pow2(BitLength(mag) - FloatMantissaBits)
        q    == mag \div unit
        r    == mag % unit
        up   == 2 * r > unit \/ (2 * r = unit /\ q % 2 = 1)
        rounded == IF BitLength(mag) <= FloatMantissaBits THEN mag
                   ELSE (IF up THEN q + 1 ELSE q) * unit
    IN  IF Bytes < 0 THEN 0 - rounded ELSE rounded

\* UTrajectoryDataMemoryEstimator::GetMaxTrajectoryDataMemory: 75% of the total.
GetMaxTrajectoryDataMemory(TotalPhysical) == (TotalPhysical * 3) \div 4

\* FTrajectoryLoadValidation
Validation(ok, msg, bytes) ==
    [bCanLoad |-> ok, Message |-> msg, EstimatedMemoryBytes |-> bytes]

\* UTrajectoryDataLoader::ValidateLoadParams, on the loader's CurrentMemoryUsage,
\* the estimator's EstimatedMemoryUsage and the machine's physical memory.
ValidateLoadParams(d, Params, Current, Estimated, TotalPhysical) ==
    LET StartTime == StartTimeOf(d, Params)
        EndTime == EndTimeOf(d, Params)
        TrajectoryIds == BuildTrajectoryIdList(Params, d.TrajMetas)
    IN  IF ~ReadDatasetMeta(d)
        THEN Validation(FALSE, "Failed to read dataset metadata", 0)
        ELSE IF StartTime >= EndTime
        THEN Validation(FALSE, "Invalid time range: start must be less than end", 0)
        ELSE IF Params.SampleRate < 1
        THEN Validation(FALSE, "Sample rate must be at least 1", 0)
        ELSE IF ~ReadTrajectoryMeta(d)
        THEN Validation(FALSE, "Failed to read trajectory metadata", 0)
        ELSE IF Len(TrajectoryIds) = 0
        THEN Validation(FALSE, "No trajectories selected to load", 0)
        ELSE
          LET NumSamples == (EndTime - StartTime) \div Params.SampleRate
              SampleMemory == Len(TrajectoryIds) * NumSamples * BytesPerSample
              TrajMetaMemory == Len(TrajectoryIds) * TrajMetaOverhead
              EstimatedMemoryBytes == SampleMemory + TrajMetaMemory
              CurrentUsage == BytesViaFloatGB(Estimated) + Current
              Available ==
                  BytesViaFloatGB(GetMaxTrajectoryDataMemory(TotalPhysical))
                    - CurrentUsage
          IN  IF EstimatedMemoryBytes > Available
              THEN Validation(FALSE, "Insufficient memory", EstimatedMemoryBytes)
              ELSE Validation(TRUE, "Can load", EstimatedMemoryBytes)

\* FTrajectoryDatasetMetadata (the fields the estimator reads)
DatasetMetadata(count, entrySize) ==
    [TrajectoryCount |-> count, EntrySizeBytes |-> entrySize]

\* UTrajectoryDataMemoryEstimator::CalculateDatasetMemoryFromMetadata: dataset
\* meta, trajectory meta, one data block header, the data entries.
CalculateDatasetMemoryFromMetadata(md) ==
    76 + (40 * md.TrajectoryCount) + 32 + (md.EntrySizeBytes * md.TrajectoryCount)

\* UTrajectoryDataMemoryEstimator::CanLoadDatasetFromMetadata, and CanLoadDataset
\* on DatasetInfo.Metadata: the same comparison in int64.
CanLoadDatasetFromMetadata(md, Estimated, TotalPhysical) ==
    CalculateDatasetMemoryFromMetadata(md)
      <= GetMaxTrajectoryDataMemory(TotalPhysical) - Estimated

(***************************************************************************)
(* The state.                                                              *)
(***************************************************************************)
VARIABLES
    ds,                   \* the dataset directory on disk
    TotalPhysicalMemory,  \* FPlatformMemory::GetStats().TotalPhysical
    EstimatedMemoryUsage, \* UTrajectoryDataMemoryEstimator::EstimatedMemoryUsage
    LoadedDatasets,       \* UTrajectoryDataLoader::LoadedDatasets
    CurrentMemoryUsage,   \* UTrajectoryDataLoader::CurrentMemoryUsage
    bIsLoadingAsync,      \* UTrajectoryDataLoader::bIsLoadingAsync
    AsyncLoadTask,        \* UTrajectoryDataLoader::AsyncLoadTask: a task, 0 when null
    LoadMutex,            \* UTrajectoryDataLoader::LoadMutex: the set of its holders
                          \* (a thread is named by its load context)
    load,                 \* per load call: the locals of LoadTrajectoriesInternal
                          \* (0: the game thread's sync call, c > 0: load task c)
    gamePc,               \* where the game thread is
    waitFor,              \* the load task whose thread the game thread waits for
    gameQueue,            \* AsyncTask(ENamedThreads::GameThread, ...) not yet run
    completions,          \* the OnLoadComplete broadcasts made so far
    calls,                \* load calls started so far
    lastAsync,            \* what the last LoadTrajectoriesAsync call returned
    query,                \* the FTrajectoryQueryTask of the query in progress
    estCall,              \* per thread: its call of the memory estimator
    shardMutex,           \* FShardTrajectoryData::Mutex of each load's shard results:
                          \* the (load, shard position, task) triples of its holders
    queryTasks            \* the FTrajectoryQueryTask objects made so far, in order,
                          \* each with its place in FTrajectoryDataCppApi::ActiveTasks

vars == <<ds, TotalPhysicalMemory, EstimatedMemoryUsage, LoadedDatasets,
          CurrentMemoryUsage, bIsLoadingAsync, AsyncLoadTask, LoadMutex, load,
          gamePc, waitFor, gameQueue, completions, calls, lastAsync, query,
          estCall, shardMutex, queryTasks>>

\* The variables of UTrajectoryDataLoader and its callers, with those of the
\* estimator's callers, the shard mutexes and the list of query tasks.
loaderVars == <<TotalPhysicalMemory, EstimatedMemoryUsage, LoadedDatasets,
                CurrentMemoryUsage, bIsLoadingAsync, AsyncLoadTask, LoadMutex,
                load, gamePc, waitFor, gameQueue, completions, calls, lastAsync,
                estCall, shardMutex, queryTasks>>

\* The threads that call the estimator, and a thread that has made no call.
EstimatorThreads == 1..MaxEstimatorThreads
NoCall ==
    [pc |-> "idle", op |-> "none", MemoryBytes |-> 0, reg |-> 0,
     Required |-> 0, ret |-> FALSE]

\* The load contexts: 0 is LoadTrajectoriesSync on the game thread, 1..MaxLoads
\* are the FTrajectoryLoadTask objects in their order of creation.
GameCtx == 0
Tasks == 1..MaxLoads
Ctxs == {GameCtx} \cup Tasks

NoParams == LoadParams(-1, -1, 1, "FirstN", 0, <<>>)

\* A load call that does not exist (yet).
NoLoad ==
    [phase |-> "none", Params |-> NoParams, bShouldStop |-> FALSE,
     admissible |-> FALSE,
     TrajectoryIds |-> <<>>, StartTime |-> 0, EndTime |-> 0,
     ShardInfoTable |-> EmptyMap, RelevantShards |-> <<>>,
     ShardResults |-> <<>>, done |-> {}, Result |-> FailedResult("")]

\* LoadTrajectoriesInternal up to the parallel phase: metadata, id list, time
\* range, shard discovery, filter and sort, the empty per-shard results.  An
\* early return leaves the failed Result; SampleRate 0 divides by zero in
\* Samples.Reserve((EndTime - StartTime) / Params.SampleRate).
BeginInternal(st, d) ==
    LET Params == st.Params
        TrajectoryIds == BuildTrajectoryIdList(Params, d.TrajMetas)
        StartTime == StartTimeOf(d, Params)
        EndTime == EndTimeOf(d, Params)
        table == DiscoverShardFiles(d)
        RelevantShards == RelevantShardsOf(table, StartTime, EndTime)
    IN  IF ~ReadDatasetMeta(d)
        THEN [st EXCEPT !.phase = "returned",
                        !.Result = FailedResult("Failed to read dataset metadata")]
        ELSE IF ~ReadTrajectoryMeta(d)
        THEN [st EXCEPT !.phase = "returned",
                        !.Result = FailedResult("Failed to read trajectory metadata")]
        ELSE IF Len(TrajectoryIds) = 0
        THEN [st EXCEPT !.phase = "returned",
                        !.Result = FailedResult("No trajectories to load")]
        ELSE IF Params.SampleRate = 0
        THEN [st EXCEPT !.phase = "crashed"]
        ELSE [st EXCEPT !.phase = "shards",
                        !.TrajectoryIds = TrajectoryIds,
                        !.StartTime = StartTime, !.EndTime = EndTime,
                        !.ShardInfoTable = table,
                        !.RelevantShards = RelevantShards,
                        !.ShardResults = [i \in 1..Len(RelevantShards) |-> EmptyMap],
                        !.done = {}]

\* The extraction tasks of a load: (position in RelevantShards, position in
\* TrajIdsArray), the iterations of the two nested ParallelFor loops.
ExtractionTasks(st) ==
    (1..Len(st.RelevantShards)) \X (1..Len(st.TrajectoryIds))

\* What one extraction task adds to its shard's TrajectorySamples.
TaskSamples(st, d, i, k) ==
    LET info == st.ShardInfoTable[st.RelevantShards[i]]
    IN  IF ~ReadShardHeaderMapped(d.Files[info.FilePath]) THEN <<>>
        ELSE ExtractShardSamples(d, st.Params, info, st.TrajectoryIds[k])

\* ShardResult.TrajectorySamples.Add(TrajId, MoveTemp(ShardSamples)), done only
\* for a non-empty ShardSamples.
AfterExtract(st, d, i, k) ==
    LET samples == TaskSamples(st, d, i, k)
    IN  [st EXCEPT !.done = @ \cup {<<i, k>>},
                   !.ShardResults[i] =
                       IF Len(samples) > 0
                       THEN MapAdd(@, st.TrajectoryIds[k], samples)
                       ELSE @]

\* One lock for all the shard results of a load.
DatasetWideMutex(i) == 0

\* The mutex an extraction task of the shard at position i takes for its Add:
\* ShardResults[ShardArrayIndex].Mutex.
MutexOf(i) == i

\* The tail of LoadTrajectoriesInternal: the merged trajectories.
MergedTrajectories(st, d) ==
    MergeFrom(InitTrajectoryMap(TrajMetaMapOf(d), st.TrajectoryIds, 1, EmptyMap),
              st.ShardResults, 1)

\* FLoadedDataset; admissible records what ValidateLoadParams said of the call
\* when it was made (not a field of the program).
LoadedDataset(st, trajs) ==
    [LoadParams |-> st.Params, Trajectories |-> trajs,
     MemoryUsedBytes |-> MemoryUsedOf(trajs), admissible |-> st.admissible]

\* Whether ValidateLoadParams accepts a call made now.
Admissible(Params) ==
    ValidateLoadParams(ds, Params, CurrentMemoryUsage, EstimatedMemoryUsage,
                       TotalPhysicalMemory).bCanLoad

\* The thread of a load context has returned from the load (FRunnableThread::
\* WaitForCompletion returns).
ThreadFinished(c) == load[c].phase = "finished"

Alive == gamePc # "crashed"

(***************************************************************************)
(* The game thread's entry points.                                         *)
(***************************************************************************)
\* LoadTrajectoriesSync: FScopeLock Lock(&LoadMutex), then
\* LoadTrajectoriesInternal up to its parallel phase.  An early return ends the
\* call; the division by zero ends the process.
SyncBegin(p) ==
    /\ gamePc = "idle" /\ LoadMutex = {} /\ calls < MaxLoads
    /\ LET st == BeginInternal([NoLoad EXCEPT !.Params = p,
                                              !.admissible = Admissible(p)], ds)
       IN  /\ load' = [load EXCEPT ![GameCtx] =
                          IF st.phase = "returned"
                          THEN [st EXCEPT !.phase = "finished"] ELSE st]
           /\ gamePc' = CASE st.phase = "shards" -> "sync"
                          [] st.phase = "crashed" -> "crashed"
                          [] OTHER -> "idle"
           /\ LoadMutex' = IF st.phase = "returned" THEN {} ELSE {GameCtx}
    /\ calls' = calls + 1
    /\ UNCHANGED <<ds, query, queryTasks, estCall, shardMutex, TotalPhysicalMemory, EstimatedMemoryUsage, LoadedDatasets,
                   CurrentMemoryUsage, bIsLoadingAsync, AsyncLoadTask, waitFor,
                   gameQueue, completions, lastAsync>>

\* One iteration of the nested ParallelFor loops of load c: trajectory k of the
\* i-th relevant shard.  The iterations run in any order; nothing in them reads
\* the task's stop flag.
ExtractTask(c, i, k) ==
    /\ Alive
    /\ load[c].phase = "shards"
    /\ <<i, k>> \in ExtractionTasks(load[c]) \ load[c].done
    /\ load' = [load EXCEPT ![c] = AfterExtract(@, ds, i, k)]
    /\ UNCHANGED <<ds, query, queryTasks, estCall, shardMutex, TotalPhysicalMemory, EstimatedMemoryUsage, LoadedDatasets,
                   CurrentMemoryUsage, bIsLoadingAsync, AsyncLoadTask, LoadMutex,
                   gamePc, waitFor, gameQueue, completions, calls, lastAsync>>

\* The rest of LoadTrajectoriesInternal once both ParallelFor loops are done:
\* the sequential merge, LoadedDatasets.Add, CurrentMemoryUsage += MemoryUsed,
\* the Result.  The sync call then returns and releases LoadMutex.
MergeCommit(c) ==
    /\ Alive
    /\ load[c].phase = "shards"
    /\ load[c].done = ExtractionTasks(load[c])
    /\ LET trajs == MergedTrajectories(load[c], ds)
           entry == LoadedDataset(load[c], trajs)
       IN  /\ LoadedDatasets' = Append(LoadedDatasets, entry)
           /\ CurrentMemoryUsage' = CurrentMemoryUsage + entry.MemoryUsedBytes
           /\ load' = [load EXCEPT ![c] =
                  [@ EXCEPT !.phase = IF c = GameCtx THEN "finished" ELSE "returned",
                            !.Result = LoadResult(TRUE, "", trajs,
                                           entry.MemoryUsedBytes,
                                           load[c].StartTime, load[c].EndTime)]]
    /\ gamePc' = IF c = GameCtx THEN "idle" ELSE gamePc
    /\ LoadMutex' = IF c = GameCtx THEN {} ELSE LoadMutex
    /\ UNCHANGED <<ds, query, queryTasks, estCall, shardMutex, TotalPhysicalMemory, EstimatedMemoryUsage, bIsLoadingAsync,
                   AsyncLoadTask, waitFor, gameQueue, completions, calls, lastAsync>>

\* The task a LoadTrajectoriesAsync call made now would create.
NewTask == calls + 1

\* LoadTrajectoriesAsync: under LoadMutex, refuse while bIsLoadingAsync, refuse
\* what ValidateLoadParams refuses, else MakeShared<FTrajectoryLoadTask> (its
\* constructor starts the thread) and the assignment to AsyncLoadTask, which
\* destroys the task held before: ~FTrajectoryLoadTask is Stop() and
\* Thread->WaitForCompletion(), with LoadMutex still held.
AsyncCall(p) ==
    /\ gamePc = "idle" /\ LoadMutex = {} /\ calls < MaxLoads
    /\ calls' = calls + 1
    /\ IF bIsLoadingAsync \/ ~Admissible(p)
       THEN /\ lastAsync' = FALSE
            /\ UNCHANGED <<load, AsyncLoadTask, bIsLoadingAsync, LoadMutex,
                           gamePc, waitFor>>
       ELSE /\ lastAsync' = TRUE
            /\ AsyncLoadTask' = NewTask
            /\ IF AsyncLoadTask = 0
               THEN /\ load' = [load EXCEPT ![NewTask] =
                           [NoLoad EXCEPT !.phase = "start", !.Params = p,
                                          !.admissible = TRUE]]
                    /\ bIsLoadingAsync' = TRUE
                    /\ UNCHANGED <<LoadMutex, gamePc, waitFor>>
               ELSE /\ load' = [load EXCEPT
                           ![NewTask] = [NoLoad EXCEPT !.phase = "start",
                                            !.Params = p, !.admissible = TRUE],
                           ![AsyncLoadTask] = [@ EXCEPT !.bShouldStop = TRUE]]
                    /\ LoadMutex' = {GameCtx}
                    /\ gamePc' = "async_wait"
                    /\ waitFor' = AsyncLoadTask
                    /\ UNCHANGED bIsLoadingAsync
    /\ UNCHANGED <<ds, query, queryTasks, estCall, shardMutex, TotalPhysicalMemory, EstimatedMemoryUsage, LoadedDatasets,
                   CurrentMemoryUsage, gameQueue, completions>>

\* CancelAsyncLoad: under LoadMutex, AsyncLoadTask->Stop() and
\* AsyncLoadTask.Reset(), whose destructor waits for the thread.
CancelAsyncLoad ==
    /\ gamePc = "idle" /\ LoadMutex = {}
    /\ IF AsyncLoadTask # 0
       THEN /\ load' = [load EXCEPT ![AsyncLoadTask] =
                                        [@ EXCEPT !.bShouldStop = TRUE]]
            /\ LoadMutex' = {GameCtx}
            /\ gamePc' = "cancel_wait"
            /\ waitFor' = AsyncLoadTask
            /\ UNCHANGED bIsLoadingAsync
       ELSE /\ bIsLoadingAsync' = FALSE
            /\ UNCHANGED <<load, LoadMutex, gamePc, waitFor>>
    /\ UNCHANGED <<ds, query, queryTasks, estCall, shardMutex, TotalPhysicalMemory, EstimatedMemoryUsage, LoadedDatasets,
                   CurrentMemoryUsage, AsyncLoadTask, gameQueue, completions,
                   calls, lastAsync>>

\* Thread->WaitForCompletion() returns in ~FTrajectoryLoadTask; the caller goes
\* on: CancelAsyncLoad leaves no task and clears bIsLoadingAsync,
\* LoadTrajectoriesAsync sets it.  LoadMutex is released on return.
WaitEnd ==
    /\ gamePc \in {"cancel_wait", "async_wait"}
    /\ ThreadFinished(waitFor)
    /\ AsyncLoadTask' = IF gamePc = "cancel_wait" THEN 0 ELSE AsyncLoadTask
    /\ bIsLoadingAsync' = (gamePc = "async_wait")
    /\ LoadMutex' = {}
    /\ gamePc' = "idle"
    /\ waitFor' = 0
    /\ UNCHANGED <<ds, query, queryTasks, estCall, shardMutex, TotalPhysicalMemory, EstimatedMemoryUsage, LoadedDatasets,
                   CurrentMemoryUsage, load, gameQueue, completions, calls,
                   lastAsync>>

\* UnloadAll, first half: FScopeLock Lock(&LoadMutex).
UnloadLock ==
    /\ gamePc = "idle" /\ LoadMutex = {}
    /\ LoadMutex' = {GameCtx}
    /\ gamePc' = "unload"
    /\ UNCHANGED <<ds, query, queryTasks, estCall, shardMutex, TotalPhysicalMemory, EstimatedMemoryUsage, LoadedDatasets,
                   CurrentMemoryUsage, bIsLoadingAsync, AsyncLoadTask, load,
                   waitFor, gameQueue, completions, calls, lastAsync>>

\* UnloadAll, second half: LoadedDatasets.Empty(), CurrentMemoryUsage = 0, return.
UnloadAll ==
    /\ gamePc = "unload"
    /\ LoadedDatasets' = <<>>
    /\ CurrentMemoryUsage' = 0
    /\ LoadMutex' = {}
    /\ gamePc' = "idle"
    /\ UNCHANGED <<ds, query, queryTasks, estCall, shardMutex, TotalPhysicalMemory, EstimatedMemoryUsage, bIsLoadingAsync,
                   AsyncLoadTask, load, waitFor, gameQueue, completions, calls,
                   lastAsync>>

(***************************************************************************)
(* The background thread of a load task: FTrajectoryLoadTask::Run.         *)
(***************************************************************************)
\* A Run that takes LoadMutex before it enters LoadTrajectoriesInternal.
RunBeginLocked(c) ==
    /\ Alive
    /\ LoadMutex = {}
    /\ c \in Tasks /\ load[c].phase = "start"
    /\ load' = [load EXCEPT ![c] = BeginInternal(@, ds)]
    /\ UNCHANGED <<ds, query, queryTasks, estCall, shardMutex, TotalPhysicalMemory,
                   EstimatedMemoryUsage, LoadedDatasets, CurrentMemoryUsage,
                   bIsLoadingAsync, AsyncLoadTask, LoadMutex, gamePc, waitFor,
                   gameQueue, completions, calls, lastAsync>>

\* Run enters Loader->LoadTrajectoriesInternal(DatasetInfo, Params); it takes
\* no lock.
RunBegin(c) ==
    /\ Alive
    /\ c \in Tasks /\ load[c].phase = "start"
    /\ load' = [load EXCEPT ![c] = BeginInternal(@, ds)]
    /\ UNCHANGED <<ds, query, queryTasks, estCall, shardMutex, TotalPhysicalMemory, EstimatedMemoryUsage, LoadedDatasets,
                   CurrentMemoryUsage, bIsLoadingAsync, AsyncLoadTask, LoadMutex,
                   gamePc, waitFor, gameQueue, completions, calls, lastAsync>>

\* A Run that returns without posting anything.
PostNothing(queue, c, Result) == queue

\* What Run hands to AsyncTask(ENamedThreads::GameThread, ...): the lambda with
\* its ResultCopy, appended to the game thread's queue.
PostCompletion(queue, c, Result) == Append(queue, [task |-> c, Result |-> Result])

\* Run after LoadTrajectoriesInternal returned: post the completion, return 0.
RunPost(c) ==
    /\ Alive
    /\ c \in Tasks /\ load[c].phase = "returned"
    /\ gameQueue' = PostCompletion(gameQueue, c, load[c].Result)
    /\ load' = [load EXCEPT ![c] = [@ EXCEPT !.phase = "finished"]]
    /\ UNCHANGED <<ds, query, queryTasks, estCall, shardMutex, TotalPhysicalMemory, EstimatedMemoryUsage, LoadedDatasets,
                   CurrentMemoryUsage, bIsLoadingAsync, AsyncLoadTask, LoadMutex,
                   gamePc, waitFor, completions, calls, lastAsync>>

\* The game thread runs the posted lambda: bIsLoadingAsync = false, then
\* OnLoadComplete.Broadcast(ResultCopy.bSuccess, ResultCopy) (a handler is bound).
GameCallback ==
    /\ gamePc = "idle"
    /\ gameQueue # <<>>
    /\ bIsLoadingAsync' = FALSE
    /\ completions' = Append(completions, Head(gameQueue))
    /\ gameQueue' = Tail(gameQueue)
    /\ UNCHANGED <<ds, query, queryTasks, estCall, shardMutex, TotalPhysicalMemory, EstimatedMemoryUsage, LoadedDatasets,
                   CurrentMemoryUsage, AsyncLoadTask, LoadMutex, load, gamePc,
                   waitFor, calls, lastAsync>>

(***************************************************************************)
(* Queries: FTrajectoryDataCppApi and FTrajectoryQueryTask.                *)
(***************************************************************************)
\* FTrajectoryQueryResult / FTrajectoryTimeRangeResult
QueryResult(ok, msg, samples, series) ==
    [bSuccess |-> ok, ErrorMessage |-> msg, Samples |-> samples,
     TimeSeries |-> series]

\* No query task.
NoQuery ==
    [pc |-> "none", QueryType |-> "SingleTimeStep", TrajectoryIds |-> <<>>,
     StartTimeStep |-> 0, EndTimeStep |-> 0, bShouldStop |-> FALSE,
     bIsComplete |-> FALSE, IntervalIndex |-> 0, path |-> 0, i |-> 0,
     TimeSeriesMap |-> EmptyMap, Result |-> QueryResult(FALSE, "", <<>>, EmptyMap),
     posted |-> FALSE, delivered |-> <<>>]

\* The position in d.Files of shard-<index>.bin, 0 when there is no such file.
ShardPathOf(d, index) ==
    IF \E f \in DOMAIN d.Files : d.Files[f].FileIndex = index
    THEN CHOOSE f \in DOMAIN d.Files : d.Files[f].FileIndex = index
    ELSE 0

\* The query failed: the error message, bSuccess left false, the function returns.
QueryFailed(q, msg) == [q EXCEPT !.pc = "done", !.Result.ErrorMessage = msg]

\* A poll that never sees the flag.
StopIgnored(q) == FALSE

\* The poll of the task's stop flag.
StopRequested(q) == q.bShouldStop

\* FVector of a zeroed array slot (it carries no time step).
ZeroVector == [id |-> 0, t |-> -1, nan |-> FALSE]

\* FTrajectoryTimeSeries with its Samples.SetNumZeroed(NumSamples).
TimeSeries(id, start, end) ==
    [TrajectoryId |-> id, StartTimeStep |-> start, EndTimeStep |-> end,
     Samples |-> [k \in 1..(end - start + 1) |-> ZeroVector]]

RECURSIVE TimeSeriesMapFrom(_, _, _, _, _)
TimeSeriesMapFrom(ids, k, start, end, m) ==
    IF k > Len(ids) THEN m
    ELSE TimeSeriesMapFrom(ids, k + 1, start, end,
             MapAdd(m, ids[k], TimeSeries(ids[k], start, end)))

\* A single time step query that skips a missing shard file.
BeginSingleTimeStepQuerySkipMissing(q, d) ==
    IF \/ q.StartTimeStep < d.Meta.FirstTimeStep
       \/ q.StartTimeStep > d.Meta.LastTimeStep
    THEN QueryFailed(q, "Time step is out of range")
    ELSE [q EXCEPT !.pc = "done", !.Result.bSuccess = TRUE]

\* ExecuteSingleTimeStepQuery up to its entry loop: dataset meta (no magic
\* check), the time step check, the shard file named by the computed index.
BeginSingleTimeStepQuery(q, d) ==
    LET GlobalIntervalIndex ==
            (q.StartTimeStep - d.Meta.FirstTimeStep) \div d.Meta.TimeStepIntervalSize
        ShardPath == ShardPathOf(d, GlobalIntervalIndex)
    IN  IF \/ q.StartTimeStep < d.Meta.FirstTimeStep
           \/ q.StartTimeStep > d.Meta.LastTimeStep
        THEN QueryFailed(q, "Time step is out of range")
        ELSE IF ShardPath = 0
        THEN QueryFailed(q, "Shard file not found")
        ELSE [q EXCEPT !.pc = "entry", !.IntervalIndex = GlobalIntervalIndex,
                       !.path = ShardPath, !.i = 0]

\* ExecuteTimeRangeQuery up to its shard loop: dataset meta, the range check,
\* the zeroed time series of every requested id, StartIntervalIndex.
BeginTimeRangeQuery(q, d) ==
    IF \/ q.StartTimeStep < d.Meta.FirstTimeStep
       \/ q.EndTimeStep > d.Meta.LastTimeStep
    THEN QueryFailed(q, "Time range is out of dataset range")
    ELSE [q EXCEPT !.pc = "shard",
                   !.TimeSeriesMap = TimeSeriesMapFrom(q.TrajectoryIds, 1,
                                         q.StartTimeStep, q.EndTimeStep, EmptyMap),
                   !.IntervalIndex = (q.StartTimeStep - d.Meta.FirstTimeStep)
                                        \div d.Meta.TimeStepIntervalSize]

\* The last shard index of a time range query.
EndIntervalIndex(q, d) ==
    (q.EndTimeStep - d.Meta.FirstTimeStep) \div d.Meta.TimeStepIntervalSize

\* The body of the entry loop of ExecuteSingleTimeStepQuery for entry i: the
\* sample of a requested trajectory at the time step, NaN or not.
SingleEntrySamples(q, d) ==
    LET file == d.Files[q.path]
        entry == file.Entries[q.i + 1]
        IntervalStartTimeStep ==
            file.GlobalIntervalIndex * d.Meta.TimeStepIntervalSize
              + d.Meta.FirstTimeStep
        TimeStepIndexInInterval == q.StartTimeStep - IntervalStartTimeStep
    IN  IF /\ entry.TrajectoryId \in Range(q.TrajectoryIds)
           /\ entry.StartTimeStepInInterval # -1
           /\ TimeStepIndexInInterval >= entry.StartTimeStepInInterval
           /\ TimeStepIndexInInterval
                < entry.StartTimeStepInInterval + entry.ValidSampleCount
        THEN <<[TrajectoryId |-> entry.TrajectoryId, TimeStep |-> q.StartTimeStep,
                Position |-> entry.Positions[TimeStepIndexInInterval],
                bIsValid |-> ~IsNaNSample(entry.Positions[TimeStepIndexInInterval])]>>
        ELSE <<>>

\* The body of the entry loop of ExecuteTimeRangeQuery for entry i: the series
\* of the entry's trajectory with the valid, non-NaN positions of the interval
\* stored at AbsoluteTimeStep - StartTimeStep, the interval's first time step
\* computed from the loop's IntervalIndex.
RangeEntrySeries(q, d) ==
    LET file == d.Files[q.path]
        entry == file.Entries[q.i + 1]
        IntervalStartTimeStep ==
            q.IntervalIndex * d.Meta.TimeStepIntervalSize + d.Meta.FirstTimeStep
        Stored(k) ==
            /\ IntervalStartTimeStep + k >= q.StartTimeStep
            /\ IntervalStartTimeStep + k <= q.EndTimeStep
            /\ k >= entry.StartTimeStepInInterval
            /\ k <= entry.StartTimeStepInInterval + entry.ValidSampleCount - 1
            /\ ~IsNaNSample(entry.Positions[k])
        Series == q.TimeSeriesMap[entry.TrajectoryId]
    IN  IF MapContains(q.TimeSeriesMap, entry.TrajectoryId)
           /\ entry.StartTimeStepInInterval # -1
        THEN [q.TimeSeriesMap EXCEPT ![entry.TrajectoryId].Samples =
                 [r \in DOMAIN Series.Samples |->
                     LET k == r - 1 + q.StartTimeStep - IntervalStartTimeStep
                     IN  IF k \in 0..(d.Meta.TimeStepIntervalSize - 1) /\ Stored(k)
                         THEN entry.Positions[k] ELSE Series.Samples[r]]]
        ELSE q.TimeSeriesMap

\* QuerySingleTimeStepAsync / QueryTimeRangeAsync: refuse an empty id list and
\* an inverted range, else MakeShared<FTrajectoryQueryTask>, whose constructor
\* starts the thread.
QueryAsync(type, ids, start, end) ==
    /\ query.pc = "none"
    /\ Len(ids) > 0
    /\ type = "TimeRange" => start <= end
    /\ query' = [NoQuery EXCEPT !.pc = "run", !.QueryType = type,
                                !.TrajectoryIds = ids, !.StartTimeStep = start,
                                !.EndTimeStep = IF type = "TimeRange" THEN end
                                                ELSE start]
    /\ UNCHANGED <<ds, loaderVars>>

\* FTrajectoryQueryTask::Run enters the query function of its type.
QueryBegin ==
    /\ query.pc = "run"
    /\ query' = IF query.QueryType = "SingleTimeStep"
                THEN BeginSingleTimeStepQuery(query, ds)
                ELSE BeginTimeRangeQuery(query, ds)
    /\ UNCHANGED <<ds, loaderVars>>

\* One pass through the head of the shard loop of ExecuteTimeRangeQuery: the
\* loop condition, the poll of the stop flag, the shard file (a missing one is
\* skipped); after the loop the result is complete.
QueryShard ==
    /\ query.pc = "shard"
    /\ query' =
         IF query.IntervalIndex > EndIntervalIndex(query, ds)
         THEN [query EXCEPT !.pc = "done",
                            !.Result = QueryResult(TRUE, "", <<>>, query.TimeSeriesMap)]
         ELSE IF StopRequested(query)
         THEN QueryFailed(query, "Query was cancelled")
         ELSE IF ShardPathOf(ds, query.IntervalIndex) = 0
         THEN [query EXCEPT !.IntervalIndex = @ + 1]
         ELSE [query EXCEPT !.pc = "entry", !.i = 0,
                            !.path = ShardPathOf(ds, query.IntervalIndex)]
    /\ UNCHANGED <<ds, loaderVars>>

\* One pass through the entry loop of either query: the loop condition, the
\* poll of the stop flag, the entry's samples.  After the last entry the single
\* time step query succeeds and the time range query goes to its next shard.
QueryEntry ==
    /\ query.pc = "entry"
    /\ query' =
         IF query.i >= Len(ds.Files[query.path].Entries)
         THEN IF query.QueryType = "SingleTimeStep"
              THEN [query EXCEPT !.pc = "done", !.Result.bSuccess = TRUE]
              ELSE [query EXCEPT !.pc = "shard", !.IntervalIndex = @ + 1]
         ELSE IF StopRequested(query)
         THEN QueryFailed(query, "Query was cancelled")
         ELSE IF query.QueryType = "SingleTimeStep"
         THEN [query EXCEPT !.i = @ + 1,
                            !.Result.Samples = @ \o SingleEntrySamples(query, ds)]
         ELSE [query EXCEPT !.i = @ + 1,
                            !.TimeSeriesMap = RangeEntrySeries(query, ds)]
    /\ UNCHANGED <<ds, loaderVars>>

\* Run after the query function returned: InvokeCallbackOnGameThread posts the
\* callback, bIsComplete = true.
QueryPost ==
    /\ query.pc = "done"
    /\ query' = [query EXCEPT !.pc = "complete", !.posted = TRUE,
                              !.bIsComplete = TRUE]
    /\ UNCHANGED <<ds, loaderVars>>

\* The game thread runs the posted lambda: the callback gets the task's result.
QueryCallback ==
    /\ query.posted
    /\ query' = [query EXCEPT !.posted = FALSE, !.delivered = <<query.Result>>]
    /\ UNCHANGED <<ds, loaderVars>>

\* FTrajectoryQueryTask::Stop, called by ~FTrajectoryDataCppApi and by the
\* task's destructor.
QueryStop ==
    /\ query.pc # "none"
    /\ ~query.bShouldStop
    /\ query' = [query EXCEPT !.bShouldStop = TRUE]
    /\ UNCHANGED <<ds, loaderVars>>

(***************************************************************************)
(* The datasets and the calls the specifications range over.               *)
(***************************************************************************)
\* Two shards of SmallIntervalSize time steps, from time step 0.
GenericMeta == DatasetMeta(0, 2 * SmallIntervalSize - 1, SmallIntervalSize)

\* Which interval's header each shard file carries: filename order and header
\* order agree, or are reversed.
Layouts == {<<0, 1>>, <<1, 0>>}

Faults ==
    {NoFault} \cup [kind : {"badmagic", "missing"}, file : {0, 1}]

\* The lives of trajectory 7: all of the dataset, its inside, either shard.
Lifetimes ==
    LET Last == GenericMeta.LastTimeStep
    IN  {<<0, Last>>, <<1, Last - 1>>, <<0, SmallIntervalSize - 1>>,
         <<SmallIntervalSize, Last>>}

\* The NaN gaps of trajectory 7: none, or one time step inside its life.
GapsOf(life) ==
    {{}} \cup {{t} : t \in {1, SmallIntervalSize} \cap (life[1]..life[2])}

\* Trajectory 7 with a chosen life and gaps, trajectory 9 alive throughout.
GenericDataset(life, gaps, layout, fault) ==
    Dataset(GenericMeta,
            <<TrajectoryMeta(7, life[1], life[2]),
              TrajectoryMeta(9, 0, GenericMeta.LastTimeStep)>>,
            [id \in {7, 9} |-> IF id = 7 THEN gaps ELSE {}],
            layout, fault)

\* The dataset of the two-shard example: time steps 0..99 in shards of 50, one
\* trajectory alive from 10 to 70.
ExampleDataset ==
    Dataset(DatasetMeta(0, 99, 50), <<TrajectoryMeta(7, 10, 70)>>,
            [id \in {7} |-> {}], <<0, 1>>, NoFault)

DatasetsLoad ==
    UNION {{GenericDataset(life, gaps, layout, fault) :
               gaps \in GapsOf(life), layout \in Layouts, fault \in Faults} :
           life \in Lifetimes}
      \cup {ExampleDataset}

\* The time steps a caller passes: -1 (the dataset's own bound), the generic
\* dataset's time steps, the example's last time step.
ParamTimes == (-1..GenericMeta.LastTimeStep) \cup {ExampleDataset.Meta.LastTimeStep}

ParamsLoad ==
    {LoadParams(start, end, rate, "FirstN", n, <<>>) :
        start \in ParamTimes, end \in ParamTimes, rate \in 0..MaxSampleRate,
        n \in 0..2}

\* The loader specification: one dataset, calls that are valid, calls with an
\* inverted or empty time range, calls selecting nothing.
DatasetsSpec ==
    {GenericDataset(<<0, GenericMeta.LastTimeStep>>, {}, layout, NoFault) :
        layout \in Layouts}

ParamsSpec ==
    {LoadParams(-1, -1, 1, "FirstN", 1, <<>>),
     LoadParams(1, 0, 1, "FirstN", 1, <<>>),
     LoadParams(-1, -1, 1, "FirstN", 0, <<>>)}

\* FPlatformMemory::GetStats().TotalPhysical: room for one load, room for all.
PhysicalMemories == {300, 4096}

(***************************************************************************)
(* Specifications.                                                         *)
(***************************************************************************)
InitLoader ==
    /\ EstimatedMemoryUsage = 0
    /\ LoadedDatasets = <<>>
    /\ CurrentMemoryUsage = 0
    /\ bIsLoadingAsync = FALSE
    /\ AsyncLoadTask = 0
    /\ LoadMutex = {}
    /\ load = [c \in Ctxs |-> NoLoad]
    /\ gamePc = "idle"
    /\ waitFor = 0
    /\ gameQueue = <<>>
    /\ completions = <<>>
    /\ calls = 0
    /\ lastAsync = FALSE
    /\ query = NoQuery
    /\ estCall = [t \in EstimatorThreads |-> NoCall]
    /\ shardMutex = {}
    /\ queryTasks = <<>>

\* One synchronous load of any dataset with any parameters.
InitLoad ==
    /\ ds \in DatasetsLoad
    /\ TotalPhysicalMemory \in {4096}
    /\ InitLoader

SyncLoadOnce == calls = 0 /\ \E p \in ParamsLoad : SyncBegin(p)
SyncExtract == \E t \in ExtractionTasks(load[GameCtx]) : ExtractTask(GameCtx, t[1], t[2])
SyncCommit == MergeCommit(GameCtx)

NextLoad == SyncLoadOnce \/ SyncExtract \/ SyncCommit

SpecLoad == InitLoad /\ [][NextLoad]_vars

\* The loader with its callers and its background threads.
Init ==
    /\ ds \in DatasetsSpec
    /\ TotalPhysicalMemory \in PhysicalMemories
    /\ InitLoader

SyncCall == \E p \in ParamsSpec : SyncBegin(p)
AsyncLoad == \E p \in ParamsSpec : AsyncCall(p)
TaskRunBegin == \E c \in Tasks : RunBegin(c)
TaskExtract ==
    \E c \in Tasks : \E t \in ExtractionTasks(load[c]) : ExtractTask(c, t[1], t[2])
TaskCommit == \E c \in Tasks : MergeCommit(c)
TaskRunPost == \E c \in Tasks : RunPost(c)

Next ==
    \/ SyncCall \/ SyncExtract \/ SyncCommit
    \/ AsyncLoad \/ CancelAsyncLoad \/ WaitEnd
    \/ UnloadLock \/ UnloadAll
    \/ TaskRunBegin \/ TaskExtract \/ TaskCommit \/ TaskRunPost
    \/ GameCallback

Spec == Init /\ [][Next]_vars

\* The steps of the thread of load task c.
ThreadStep(c) ==
    \/ RunBegin(c)
    \/ \E t \in ExtractionTasks(load[c]) : ExtractTask(c, t[1], t[2])
    \/ MergeCommit(c)
    \/ RunPost(c)

\* The steps with which the game thread goes on inside a call it has entered.
GameStep == SyncExtract \/ SyncCommit \/ WaitEnd \/ UnloadAll

\* Fair scheduling: a started thread keeps running, the game thread finishes
\* the call it is in, and, draining its task queue every frame, it runs a
\* posted callback sooner or later even if it makes other calls in between.
Fairness ==
    /\ \A c \in Tasks : WF_vars(ThreadStep(c))
    /\ WF_vars(GameStep)
    /\ SF_vars(GameCallback)

\* The loader under fair scheduling, on one dataset with memory for every
\* load, its callers making MaxFairLoads load calls.
InitFair ==
    /\ ds = GenericDataset(<<0, GenericMeta.LastTimeStep>>, {}, <<0, 1>>, NoFault)
    /\ TotalPhysicalMemory = 4096
    /\ InitLoader

FairSyncCall == calls < MaxFairLoads /\ SyncCall
FairAsyncLoad == calls < MaxFairLoads /\ AsyncLoad

NextFair ==
    \/ FairSyncCall \/ SyncExtract \/ SyncCommit
    \/ FairAsyncLoad \/ CancelAsyncLoad \/ WaitEnd
    \/ UnloadLock \/ UnloadAll
    \/ TaskRunBegin \/ TaskExtract \/ TaskCommit \/ TaskRunPost
    \/ GameCallback

FairSpec == InitFair /\ [][NextFair]_vars /\ Fairness

\* One query of any dataset.
DatasetsQuery == DatasetsLoad \ {ExampleDataset}

QueryTimes == -1..(GenericMeta.LastTimeStep + 1)

QueryIds == {<<7>>, <<9>>, <<7, 9>>}

InitQuery ==
    /\ ds \in DatasetsQuery
    /\ TotalPhysicalMemory = 4096
    /\ InitLoader

QuerySingleTimeStepAsync ==
    \E ids \in QueryIds, t \in QueryTimes : QueryAsync("SingleTimeStep", ids, t, t)
QueryTimeRangeAsync ==
    \E ids \in QueryIds, start \in QueryTimes, end \in QueryTimes :
        QueryAsync("TimeRange", ids, start, end)

NextQuery ==
    \/ QuerySingleTimeStepAsync \/ QueryTimeRangeAsync
    \/ QueryBegin \/ QueryShard \/ QueryEntry \/ QueryPost \/ QueryCallback
    \/ QueryStop

SpecQuery == InitQuery /\ [][NextQuery]_vars

(***************************************************************************)
(* Properties of one bulk load (SpecLoad).                                 *)
(***************************************************************************)
\* The call of context c has returned a successful result.
Loaded(c) == load[c].phase \in {"returned", "finished"} /\ load[c].Result.bSuccess

\* The time steps of a sample sequence, in order.
TimesOf(samples) == [i \in DOMAIN samples |-> samples[i].t]

NonDecreasing(seq) == \A i, j \in DOMAIN seq : i < j => seq[i] <= seq[j]

\* The dataset has two shards of disjoint time ranges, and the trajectory has an
\* entry in both.
InBothShards(d, id) ==
    /\ Len(d.Files) = 2
    /\ \A f \in DOMAIN d.Files : ReadShardHeaderMapped(d.Files[f])
    /\ d.Files[1].GlobalIntervalIndex # d.Files[2].GlobalIntervalIndex
    /\ \A f \in DOMAIN d.Files : EntryIndexOf(d.Files[f], id) >= 0

\* C1: for a dataset of two shards with disjoint time ranges and a trajectory
\* present in both, the samples a bulk load produces for the trajectory are in
\* non-decreasing time-step order, whatever the order of the shard tasks and
\* whether or not filename order and header order agree.
C1_MergeOrder ==
    \A c \in Ctxs : Loaded(c) =>
        \A id \in DOMAIN load[c].Result.Trajectories :
            InBothShards(ds, id) =>
                NonDecreasing(TimesOf(load[c].Result.Trajectories[id].Samples))

\* The load of the two-shard example: range [0, 99], sample rate 1.
ExampleLoad(c) ==
    /\ ds = ExampleDataset
    /\ load[c].Params.StartTimeStep = 0 /\ load[c].Params.EndTimeStep = 99
    /\ load[c].Params.SampleRate = 1
    /\ Loaded(c)

\* C2: a trajectory valid for time steps 10..49 in the first shard and 50..70
\* in the second, loaded with range [0, 99] at sample rate 1, has exactly one
\* sample for each time step 10..70, in ascending order.
C2_ExampleExact ==
    \A c \in Ctxs : ExampleLoad(c) =>
        /\ ds.Files[1].Entries[1].StartTimeStepInInterval = 10
        /\ ds.Files[1].Entries[1].ValidSampleCount = 40
        /\ ds.Files[2].Entries[1].StartTimeStepInInterval = 0
        /\ ds.Files[2].Entries[1].ValidSampleCount = 21
        /\ 7 \in DOMAIN load[c].Result.Trajectories
        /\ TimesOf(load[c].Result.Trajectories[7].Samples)
             = [i \in 1..61 |-> 9 + i]

C2_Witness == \E c \in Ctxs : ExampleLoad(c)

\* C3: no sample of a loaded trajectory is the NaN sentinel, at every sample
\* rate and for every shard layout.
C3_NoNaNLoaded ==
    \A c \in Ctxs : Loaded(c) =>
        \A id \in DOMAIN load[c].Result.Trajectories :
            \A i \in DOMAIN load[c].Result.Trajectories[id].Samples :
                ~IsNaNSample(load[c].Result.Trajectories[id].Samples[i])

\* The call of context c asks for at least one trajectory at a sample rate of
\* at least 1 over a range that touches both files of the dataset, of which
\* file b has a corrupted magic number and file h is healthy.
SpansCorruptedAndHealthy(c, b, h) ==
    /\ Len(ds.Files) = 2 /\ b # h
    /\ ds.Files[b].Magic # "TDDB" /\ ds.Files[h].Magic = "TDDB"
    /\ load[c].phase \in {"returned", "finished"}
    /\ load[c].Params.NumTrajectories >= 1 /\ load[c].Params.SampleRate >= 1
    /\ \A f \in {b, h} :
          ContainsTimeRange(ShardInfo(ds, f), StartTimeOf(ds, load[c].Params),
                            EndTimeOf(ds, load[c].Params))

\* The time steps in [lo, hi] at which file h stores a valid position of id.
StoredTimes(h, id, lo, hi) ==
    {p.t : p \in UNION {Range(ds.Files[h].Entries[e].Positions) :
                          e \in {x \in DOMAIN ds.Files[h].Entries :
                                    ds.Files[h].Entries[x].TrajectoryId = id}}}
      \cap {t \in lo..hi :
              \E e \in DOMAIN ds.Files[h].Entries :
                 /\ ds.Files[h].Entries[e].TrajectoryId = id
                 /\ \E k \in DOMAIN ds.Files[h].Entries[e].Positions :
                       /\ ds.Files[h].Entries[e].Positions[k].t = t
                       /\ ~IsNaNSample(ds.Files[h].Entries[e].Positions[k])}

\* C10: a load whose range spans a shard with a corrupted magic number and a
\* healthy shard succeeds, every loaded sample lies in the healthy shard's time
\* range, and at sample rate 1 the valid samples loaded are all those the
\* healthy shard stores in the requested range.
C10_CorruptedShardSkipped ==
    \A c \in Ctxs : \A b, h \in 1..2 : SpansCorruptedAndHealthy(c, b, h) =>
        /\ load[c].Result.bSuccess
        /\ \A id \in DOMAIN load[c].Result.Trajectories :
             LET samples == load[c].Result.Trajectories[id].Samples
                 info == ShardInfo(ds, h)
                 valid == {samples[i].t : i \in {x \in DOMAIN samples :
                                                   ~IsNaNSample(samples[x])}}
             IN  /\ \A i \in DOMAIN samples :
                       /\ samples[i].t >= info.StartTimeStep
                       /\ samples[i].t <= info.EndTimeStep
                 /\ load[c].Params.SampleRate = 1 =>
                       valid = StoredTimes(h, id, StartTimeOf(ds, load[c].Params),
                                           EndTimeOf(ds, load[c].Params))

C10_Witness ==
    \E c \in Ctxs : \E b, h \in 1..2 :
        /\ SpansCorruptedAndHealthy(c, b, h)
        /\ load[c].Params.SampleRate = 1
        /\ \E id \in DOMAIN load[c].Result.Trajectories :
              load[c].Result.Trajectories[id].Samples # <<>>

(***************************************************************************)
(* Properties of the loader with its callers and threads (Spec, FairSpec). *)
(***************************************************************************)
\* C4: a call with invalid parameters (start >= end, sample rate < 1, empty
\* selection) or an estimate above the available memory fails with a message
\* before any work starts, from LoadTrajectoriesSync as from
\* LoadTrajectoriesAsync: no load that ValidateLoadParams refuses gets past its
\* start, and no dataset of such a call is in LoadedDatasets.
C4_InvalidCallsAbort ==
    /\ \A c \in Ctxs :
          (load[c].phase # "none" /\ ~load[c].admissible) =>
              /\ load[c].phase = "finished"
              /\ ~load[c].Result.bSuccess
              /\ load[c].Result.ErrorMessage # ""
    /\ \A i \in DOMAIN LoadedDatasets : LoadedDatasets[i].admissible

\* The step in which load c leaves its parallel phase: the merge and the
\* LoadedDatasets.Add / CurrentMemoryUsage += of LoadTrajectoriesInternal.
CommitStep(c) == load[c].phase = "shards" /\ load'[c].phase # "shards"

\* The step in which UnloadAll empties the collection.
UnloadStep == gamePc = "unload" /\ gamePc' = "idle"

\* C5: LoadedDatasets and CurrentMemoryUsage change only in the commit of a
\* load or in UnloadAll, and the thread that takes such a step holds LoadMutex:
\* the game thread in a synchronous load and in UnloadAll, the task's thread in
\* an asynchronous load.
C5_MutatedUnderLoadMutex ==
    [][/\ \A c \in Ctxs : CommitStep(c) => c \in LoadMutex
       /\ UnloadStep => GameCtx \in LoadMutex
       /\ (\/ LoadedDatasets' # LoadedDatasets
           \/ CurrentMemoryUsage' # CurrentMemoryUsage)
            => (UnloadStep \/ \E c \in Ctxs : CommitStep(c))]_vars

\* C6: the background work of an asynchronous load changes no state it shares
\* with the caller: a step of a load task's thread leaves LoadedDatasets and
\* CurrentMemoryUsage as they are, the result reaching the caller only in the
\* completion callback.
C6_NoSharedMutationByTask ==
    [][(\E c \in Tasks : load'[c] # load[c] /\ load[c].phase # "none"
                           /\ load'[c].bShouldStop = load[c].bShouldStop)
         => /\ LoadedDatasets' = LoadedDatasets
            /\ CurrentMemoryUsage' = CurrentMemoryUsage]_vars

\* OnLoadComplete has been broadcast for task c.
Delivered(c) == \E i \in DOMAIN completions : completions[i].task = c

\* C7: every load that LoadTrajectoriesAsync accepted and that is not stopped
\* is eventually delivered by OnLoadComplete; no load is delivered twice, and a
\* delivery carries the result of its load.
C7_AcceptedLoadDelivered ==
    /\ \A c \in Tasks :
          [](load[c].phase # "none" => <>(load[c].bShouldStop \/ Delivered(c)))
    /\ [](\A i, j \in DOMAIN completions :
             /\ completions[i].task = completions[j].task => i = j
             /\ completions[i].Result = load[completions[i].task].Result)

C7_Witness ==
    \E c \in Tasks : ~load[c].bShouldStop /\ Delivered(c) /\ load[c].Result.bSuccess

\* C8: once the stop flag of a load task is set, the load starts no further
\* shard or entry iteration and does not go on to commit.
C8_StopFlagPolled ==
    [][\A c \in Tasks :
          (load[c].bShouldStop /\ load[c].phase = "shards") =>
              /\ load'[c].done = load[c].done
              /\ ~CommitStep(c)]_vars

(***************************************************************************)
(* Properties of a query (SpecQuery).                                      *)
(***************************************************************************)
\* The query function is executing.
QueryRunning(q) == q.pc \in {"run", "shard", "entry"}

\* The result of a cancelled query.
CancelledResult(r) == ~r.bSuccess /\ r.ErrorMessage = "Query was cancelled"

\* The query is at a poll of its stop flag: at the head of a shard iteration or
\* of an entry iteration that the loop condition lets in.
AtPoll(q) ==
    \/ q.pc = "shard" /\ q.IntervalIndex <= EndIntervalIndex(q, ds)
    \/ q.pc = "entry" /\ q.i < Len(ds.Files[q.path].Entries)

\* C9 as stated: a query whose stop flag is set before it has finished
\* executing finishes with bSuccess = false and the cancelled message, and that
\* is the result its callback gets.
C9_StoppedQueryCancelled ==
    [][/\ (query.bShouldStop /\ QueryRunning(query) /\ query'.pc = "done")
            => CancelledResult(query'.Result)
       /\ (query.posted /\ ~query'.posted)
            => query'.delivered = <<query.Result>>]_vars

\* C9, amended: a query that reaches a poll of its stop flag with the flag set
\* finishes there with bSuccess = false and the cancelled message, which its
\* callback gets, for the single time step query and the time range query; a
\* flag set after the last poll changes nothing.
C9_StoppedAtPollCancelled ==
    [][/\ (query.bShouldStop /\ AtPoll(query))
            => (query'.pc = "done" /\ CancelledResult(query'.Result))
       /\ (query.posted /\ ~query'.posted)
            => query'.delivered = <<query.Result>>
       /\ (query.bShouldStop /\ query.pc \in {"done", "complete"})
            => query'.Result = query.Result]_vars

C9_Witness ==
    /\ query.delivered # <<>>
    /\ CancelledResult(query.delivered[1])
    /\ query.QueryType = "TimeRange"
    /\ query.TimeSeriesMap # EmptyMap

(***************************************************************************)
(* Properties of the trajectory selection.                                 *)
(***************************************************************************)
\* C11: a load call with the FirstN strategy and NumTrajectories = 0 selects no
\* id and returns bSuccess = false with the message "No trajectories to load";
\* no dataset is added, and the call does not crash whatever its sample rate
\* and time range.
C11_FirstNZeroFails ==
    \A c \in Ctxs :
        (/\ load[c].phase # "none"
         /\ load[c].Params.SelectionStrategy = "FirstN"
         /\ load[c].Params.NumTrajectories = 0) =>
            /\ Alive
            /\ load[c].phase = "finished"
            /\ load[c].TrajectoryIds = <<>>
            /\ ~load[c].Result.bSuccess
            /\ load[c].Result.ErrorMessage = "No trajectories to load"
            /\ LoadedDatasets = <<>> /\ CurrentMemoryUsage = 0

C11_Witness ==
    /\ load[GameCtx].phase = "finished"
    /\ load[GameCtx].Params.NumTrajectories = 0
    /\ load[GameCtx].Params.SampleRate = 0
    /\ load[GameCtx].Result.ErrorMessage = "No trajectories to load"

(***************************************************************************)
(* Trajectory selection: a synchronous load of a one-shard dataset of 1 to *)
(* MaxTrajectories trajectories with each selection strategy (SpecSelect). *)
(***************************************************************************)
\* The id of the i-th trajectory record: unique, not in ascending order.
MetaIdOf(i) == IF i % 2 = 1 THEN 10 * (i + 1) ELSE 10 * (i - 1)

\* An id no trajectory record carries.
UnknownId == 99

\* A dataset of one shard whose metadata has total records, every trajectory
\* alive throughout.
SelectDataset(total) ==
    Dataset(DatasetMeta(0, SmallIntervalSize - 1, SmallIntervalSize),
            [i \in 1..total |-> TrajectoryMeta(MetaIdOf(i), 0, SmallIntervalSize - 1)],
            [id \in {MetaIdOf(i) : i \in 1..total} |-> {}],
            <<0>>, NoFault)

\* The TrajectorySelections a caller passes: up to three ids, known or not,
\* repeated or not.
ExplicitLists ==
    UNION {[1..n -> {MetaIdOf(1), MetaIdOf(2), UnknownId}] : n \in 0..3}

ParamsSelect ==
    {LoadParams(-1, -1, 1, strategy, n, <<>>) :
        strategy \in {"FirstN", "Distributed"}, n \in 0..(MaxTrajectories + 1)}
      \cup {LoadParams(-1, -1, 1, "ExplicitList", 0, list) : list \in ExplicitLists}

InitSelect ==
    /\ ds \in {SelectDataset(total) : total \in 1..MaxTrajectories}
    /\ TotalPhysicalMemory = 4096
    /\ InitLoader

SelectCall == calls = 0 /\ \E p \in ParamsSelect : SyncBegin(p)

NextSelect == SelectCall \/ SyncExtract \/ SyncCommit

SpecSelect == InitSelect /\ [][NextSelect]_vars

\* The ids of the trajectory records of the dataset.
MetadataIds == {ds.TrajMetas[i].TrajectoryId : i \in DOMAIN ds.TrajMetas}

NoDuplicates(seq) == \A i, j \in DOMAIN seq : seq[i] = seq[j] => i = j

\* Load c has built its id list with the given strategy (a failed load has
\* built the empty list).
Selected(c, strategy) ==
    load[c].phase # "none" /\ load[c].Params.SelectionStrategy = strategy

\* C12: whatever the strategy, the id list of BuildTrajectoryIdList holds only
\* ids of the trajectory metadata and holds no id twice, also when the
\* caller's explicit list repeats an id.
C12_SelectionDeduplicated ==
    \A c \in Ctxs : load[c].phase # "none" =>
        /\ Range(load[c].TrajectoryIds) \subseteq MetadataIds
        /\ NoDuplicates(load[c].TrajectoryIds)

\* C13: FirstN(k) returns exactly min(k, total) ids, distinct, the ids of the
\* first records in metadata order.
C13_FirstNExact ==
    \A c \in Ctxs : Selected(c, "FirstN") =>
        LET ids == load[c].TrajectoryIds
        IN  /\ Len(ids) = Min(load[c].Params.NumTrajectories, Len(ds.TrajMetas))
            /\ \A i \in DOMAIN ids : ids[i] = ds.TrajMetas[i].TrajectoryId
            /\ NoDuplicates(ids)

C13_Witness ==
    /\ Selected(GameCtx, "FirstN") /\ Loaded(GameCtx)
    /\ Len(ds.TrajMetas) = 3
    /\ load[GameCtx].Params.NumTrajectories = 2
    /\ load[GameCtx].TrajectoryIds = <<MetaIdOf(1), MetaIdOf(2)>>

\* C14: Distributed(N) returns min(N, total) ids, at most N, distinct and
\* from the metadata: those of every stride-th record in metadata order from
\* the first, stride = max(1, total / N).
C14_DistributedStride ==
    \A c \in Ctxs : Selected(c, "Distributed") =>
        LET ids == load[c].TrajectoryIds
            N == load[c].Params.NumTrajectories
            total == Len(ds.TrajMetas)
            stride == IF N = 0 THEN 1 ELSE Max(1, total \div N)
        IN  /\ Len(ids) = Min(N, total) /\ Len(ids) <= N
            /\ \A j \in DOMAIN ids :
                   /\ (j - 1) * stride + 1 \in DOMAIN ds.TrajMetas
                   /\ ids[j] = ds.TrajMetas[(j - 1) * stride + 1].TrajectoryId
            /\ Range(ids) \subseteq MetadataIds
            /\ NoDuplicates(ids)

C14_Witness ==
    /\ Selected(GameCtx, "Distributed") /\ Loaded(GameCtx)
    /\ Len(ds.TrajMetas) = 4
    /\ load[GameCtx].Params.NumTrajectories = 2
    /\ load[GameCtx].TrajectoryIds = <<MetaIdOf(1), MetaIdOf(3)>>

(***************************************************************************)
(* Properties of the shard filter of a bulk load (SpecLoad).               *)
(***************************************************************************)
\* Load c has filtered the discovered shards against its time range.
Filtered(c) == load[c].phase \in {"shards", "returned", "finished"}

\* ContainsTimeRange(StartTime, EndTime) as load c evaluated it on shard k.
Contained(c, k) == k \in Range(load[c].RelevantShards)

\* The shard's range and [a, b] have a time step in common.
Overlap(info, a, b) ==
    \E t \in info.StartTimeStep..info.EndTimeStep : a <= t /\ t <= b

notEstimator ==
    <<ds, query, TotalPhysicalMemory, LoadedDatasets, CurrentMemoryUsage,
      bIsLoadingAsync, AsyncLoadTask, LoadMutex, load, gamePc, waitFor,
      gameQueue, completions, calls, lastAsync, shardMutex, queryTasks>>

\* AddEstimatedUsage, "EstimatedMemoryUsage += MemoryBytes": the read and the sum.
AddEstimatedUsage(t, MemoryBytes) ==
    /\ estCall[t].pc = "idle"
    /\ estCall' = [estCall EXCEPT ![t] =
           [NoCall EXCEPT !.pc = "store", !.op = "Add",
                          !.MemoryBytes = MemoryBytes,
                          !.reg = EstimatedMemoryUsage + MemoryBytes]]
    /\ UNCHANGED <<EstimatedMemoryUsage, notEstimator>>

\* RemoveEstimatedUsage, "EstimatedMemoryUsage -= MemoryBytes": the read and
\* the difference.
RemoveEstimatedUsage(t, MemoryBytes) ==
    /\ estCall[t].pc = "idle"
    /\ estCall' = [estCall EXCEPT ![t] =
           [NoCall EXCEPT !.pc = "store", !.op = "Remove",
                          !.MemoryBytes = MemoryBytes,
                          !.reg = EstimatedMemoryUsage - MemoryBytes]]
    /\ UNCHANGED <<EstimatedMemoryUsage, notEstimator>>

\* The store that ends += and -=.
EstimatorStore(t) ==
    /\ estCall[t].pc = "store"
    /\ EstimatedMemoryUsage' = estCall[t].reg
    /\ estCall' = [estCall EXCEPT ![t].pc = "clamp"]
    /\ UNCHANGED notEstimator

\* "if (EstimatedMemoryUsage < 0) EstimatedMemoryUsage = 0", and the return.
EstimatorClamp(t) ==
    /\ estCall[t].pc = "clamp"
    /\ EstimatedMemoryUsage' = IF EstimatedMemoryUsage < 0 THEN 0
                                ELSE EstimatedMemoryUsage
    /\ estCall' = [estCall EXCEPT ![t].pc = "done"]
    /\ UNCHANGED notEstimator

\* ResetEstimatedUsage: one store.
ResetEstimatedUsage(t) ==
    /\ estCall[t].pc = "idle"
    /\ EstimatedMemoryUsage' = 0
    /\ estCall' = [estCall EXCEPT ![t] = [NoCall EXCEPT !.pc = "done", !.op = "Reset"]]
    /\ UNCHANGED notEstimator

\* A call of CanLoadDataset or CanLoadDatasetFromMetadata (fn): what it returns.
CanLoadDataset(t, fn, md) ==
    /\ estCall[t].pc = "idle"
    /\ estCall' = [estCall EXCEPT ![t] =
           [NoCall EXCEPT !.pc = "done", !.op = fn,
                          !.Required = CalculateDatasetMemoryFromMetadata(md),
                          !.ret = CanLoadDatasetFromMetadata(md, EstimatedMemoryUsage,
                                                             TotalPhysicalMemory)]]
    /\ UNCHANGED <<EstimatedMemoryUsage, notEstimator>>

\* A call of UTrajectoryDataLoader::ValidateLoadParams: what it returns.
ValidateCall(t, p) ==
    /\ estCall[t].pc = "idle"
    /\ LET v == ValidateLoadParams(ds, p, CurrentMemoryUsage, EstimatedMemoryUsage,
                                    TotalPhysicalMemory)
       IN  estCall' = [estCall EXCEPT ![t] =
               [NoCall EXCEPT !.pc = "done", !.op = "ValidateLoadParams",
                              !.Required = v.EstimatedMemoryBytes,
                              !.ret = v.bCanLoad]]
    /\ UNCHANGED <<EstimatedMemoryUsage, notEstimator>>

\* FPlatformMemory::GetStats().TotalPhysical: a machine whose 75% is below
\* 2^24 bytes and one whose 75% is 2^24 + 3 bytes.
EstimatorMemories == {300, 22369626}

\* The MemoryBytes of AddEstimatedUsage / RemoveEstimatedUsage calls.
UsageBytes == {5, 7, Pow2(FloatMantissaBits) + 1}

\* The datasets of CanLoadDataset calls: small ones, and one trajectory whose
\* entry makes the requirement 2^24 + 3 or 2^24 + 4 bytes.
EstimatorMetadata ==
    {DatasetMetadata(count, size) : count \in 1..2, size \in {24}}
      \cup {DatasetMetadata(1, Pow2(FloatMantissaBits) + 3 - 148 + more) :
                more \in 0..1}

\* The loads of ValidateLoadParams calls: one trajectory over [0, end] with an
\* estimate of 164 bytes or of 2^24 + 4 bytes.
ParamsEstimator ==
    {LoadParams(0, end, 1, "FirstN", 1, <<>>) : end \in {3, 1398091}}

InitEstimator ==
    /\ ds = GenericDataset(<<0, GenericMeta.LastTimeStep>>, {}, <<0, 1>>, NoFault)
    /\ TotalPhysicalMemory \in EstimatorMemories
    /\ InitLoader

NextEstimator ==
    \E t \in EstimatorThreads :
        \/ \E b \in UsageBytes : AddEstimatedUsage(t, b)
        \/ \E b \in UsageBytes : RemoveEstimatedUsage(t, b)
        \/ EstimatorStore(t)
        \/ EstimatorClamp(t)
        \/ ResetEstimatedUsage(t)
        \/ \E fn \in {"CanLoadDataset", "CanLoadDatasetFromMetadata"} :
              \E md \in EstimatorMetadata : CanLoadDataset(t, fn, md)
        \/ \E p \in ParamsEstimator : ValidateCall(t, p)

SpecEstimator == InitEstimator /\ [][NextEstimator]_vars

\* The admission checks.
AdmissionChecks == {"CanLoadDataset", "CanLoadDatasetFromMetadata", "ValidateLoadParams"}

\* Thread t returns from an admission check in this step.
ChecksNow(t) == estCall[t].pc = "idle" /\ estCall'[t].op \in AdmissionChecks

\* The bytes left of the capacity: 75% of the physical memory less the usage
\* already committed.
CapacityLeft ==
    GetMaxTrajectoryDataMemory(TotalPhysicalMemory)
      - (EstimatedMemoryUsage + CurrentMemoryUsage)

\* C16: an admission check (ValidateLoadParams, CanLoadDataset,
\* CanLoadDatasetFromMetadata) whose estimate exceeds the capacity left, 75% of
\* the total physical memory less the committed usage, returns false.
C16_AdmissionRefusesOverCapacity ==
    [][\A t \in EstimatorThreads :
          (ChecksNow(t) /\ estCall'[t].Required > CapacityLeft)
              => ~estCall'[t].ret]_vars

\* EstimatedMemoryUsage after one call on the value v.
ApplyCall(v, call) ==
    CASE call.op = "Add" -> Max(0, v + call.MemoryBytes)
      [] call.op = "Remove" -> Max(0, v - call.MemoryBytes)
      [] call.op = "Reset" -> 0
      [] OTHER -> v

RECURSIVE SequentialOutcomes(_, _)
\* The values the calls of the threads T leave when made one after the other
\* from the value v, in every order.
SequentialOutcomes(v, T) ==
    IF T = {} THEN {v}
    ELSE UNION {SequentialOutcomes(ApplyCall(v, estCall[t]), T \ {t}) : t \in T}

\* C17: when no call of the estimator is in progress, the usage counter has
\* the value that the calls made so far produce in some sequential order: no
\* update is lost.
C17_NoLostUpdate ==
    (\A t \in EstimatorThreads : estCall[t].pc \in {"idle", "done"}) =>
        EstimatedMemoryUsage
          \in SequentialOutcomes(0, {t \in EstimatorThreads : estCall[t].pc = "done"})

(***************************************************************************)
(* Properties of the results of queries (SpecQuery).                       *)
(***************************************************************************)
\* The callback of a query of the given type got a successful result.
Succeeded(type) ==
    /\ query.QueryType = type
    /\ query.delivered # <<>>
    /\ query.delivered[1].bSuccess

\* C18: a successful single time step query holds, for every requested
\* trajectory id, exactly one sample, and that sample's time step is the
\* queried time step.
C18_OneSamplePerId ==
    Succeeded("SingleTimeStep") =>
        LET Samples == query.delivered[1].Samples
        IN  \A id \in Range(query.TrajectoryIds) :
                /\ Cardinality({i \in DOMAIN Samples :
                                   Samples[i].TrajectoryId = id}) = 1
                /\ \A i \in DOMAIN Samples :
                       Samples[i].TrajectoryId = id =>
                           Samples[i].TimeStep = query.StartTimeStep

\* The dataset stores a position that is not NaN for trajectory id at time
\* step t, inside the valid sample range of the trajectory's entry.
StoredValid(d, id, t) ==
    \E f \in DOMAIN d.Files : \E e \in DOMAIN d.Files[f].Entries :
        LET entry == d.Files[f].Entries[e]
        IN  /\ entry.TrajectoryId = id
            /\ \E k \in DOMAIN entry.Positions :
                   /\ k >= entry.StartTimeStepInInterval
                   /\ k < entry.StartTimeStepInInterval + entry.ValidSampleCount
                   /\ entry.Positions[k].t = t
                   /\ ~IsNaNSample(entry.Positions[k])

\* C19: a successful time range query over [rangeStart, rangeEnd] holds, for
\* every requested id, a series of rangeEnd - rangeStart + 1 samples whose slot
\* t - rangeStart is the position stored for the trajectory at time step t
\* where one is stored in a valid sample range and is not NaN, and the zero
\* vector elsewhere.
C19_DenseSeries ==
    Succeeded("TimeRange") =>
        LET Series == query.delivered[1].TimeSeries
        IN  \A id \in Range(query.TrajectoryIds) :
                /\ id \in DOMAIN Series
                /\ Len(Series[id].Samples)
                      = query.EndTimeStep - query.StartTimeStep + 1
                /\ \A r \in DOMAIN Series[id].Samples :
                       Series[id].Samples[r] =
                           IF StoredValid(ds, id, query.StartTimeStep + r - 1)
                           THEN PositionSample(id, query.StartTimeStep + r - 1, FALSE)
                           ELSE ZeroVector

\* The shard indices the query computes from its time step or time range.
NeededShards(q, d) ==
    ((q.StartTimeStep - d.Meta.FirstTimeStep) \div d.Meta.TimeStepIntervalSize)
      .. ((q.EndTimeStep - d.Meta.FirstTimeStep) \div d.Meta.TimeStepIntervalSize)

\* The query function has returned for a time step or range inside the
\* dataset's, and a shard file it needs does not exist.
ReturnedWithMissingShard ==
    /\ query.pc \in {"done", "complete"}
    /\ query.StartTimeStep >= ds.Meta.FirstTimeStep
    /\ query.EndTimeStep <= ds.Meta.LastTimeStep
    /\ \E g \in NeededShards(query, ds) : ShardPathOf(ds, g) = 0

\* C20 as stated: a query that needs a missing shard completes with
\* bSuccess = false and an error message, the single time step query and the
\* time range query alike.
C20_MissingShardFatal ==
    ReturnedWithMissingShard =>
        ~query.Result.bSuccess /\ query.Result.ErrorMessage # ""

\* C20, amended: a single time step query whose shard file is missing completes
\* with bSuccess = false and the message "Shard file not found"; a time range
\* query skips a missing shard: unless it is cancelled it completes with
\* bSuccess = true, the slots of the missing shard's time steps zero.
C20_MissingShardFatalForPoint ==
    ReturnedWithMissingShard =>
        IF query.QueryType = "SingleTimeStep"
        THEN /\ ~query.Result.bSuccess
             /\ query.Result.ErrorMessage = "Shard file not found"
        ELSE \/ CancelledResult(query.Result)
             \/ /\ query.Result.bSuccess
                /\ \A id \in DOMAIN query.Result.TimeSeries :
                     \A r \in DOMAIN query.Result.TimeSeries[id].Samples :
                        LET t == query.StartTimeStep + r - 1
                            g == (t - ds.Meta.FirstTimeStep)
                                   \div ds.Meta.TimeStepIntervalSize
                        IN  ShardPathOf(ds, g) = 0 =>
                              query.Result.TimeSeries[id].Samples[r] = ZeroVector

C20_Witness ==
    /\ ReturnedWithMissingShard
    /\ Succeeded("TimeRange")
    /\ \E id \in DOMAIN query.Result.TimeSeries :
          /\ \E r \in DOMAIN query.Result.TimeSeries[id].Samples :
                query.Result.TimeSeries[id].Samples[r] # ZeroVector
          /\ \E r \in DOMAIN query.Result.TimeSeries[id].Samples :
                query.Result.TimeSeries[id].Samples[r] = ZeroVector

(***************************************************************************)
(* Properties of the decoding of records (SpecLoad, SpecQuery).            *)
(***************************************************************************)
\* The load of context c is past its metadata and discovery.
PastDiscovery(c) == load[c].phase = "shards" \/ Loaded(c)

\* C21: no path uses the fields of a record whose magic tag is not the
\* expected one: a load past its metadata has read a dataset meta tagged
\* "TDSH", every shard in its table and every shard it extracted samples from
\* has a header tagged "TDDB", and a query in its shard or entry loop has a
\* dataset meta tagged "TDSH" and, in the entry loop, a shard header tagged
\* "TDDB".
C21_BadRecordNeverUsed ==
    /\ \A c \in Ctxs : PastDiscovery(c) =>
          /\ ReadDatasetMeta(ds)
          /\ \A k \in DOMAIN load[c].ShardInfoTable :
                ReadShardHeaderMapped(ds.Files[load[c].ShardInfoTable[k].FilePath])
          /\ \A i \in DOMAIN load[c].ShardResults :
                load[c].ShardResults[i] # EmptyMap =>
                   ReadShardHeaderMapped(
                       ds.Files[load[c].ShardInfoTable[load[c].RelevantShards[i]].FilePath])
    /\ query.pc \in {"shard", "entry"} => ReadDatasetMeta(ds)
    /\ query.pc = "entry" => ReadShardHeaderMapped(ds.Files[query.path])

(***************************************************************************)
(* Shard discovery: a synchronous load of a dataset directory whose shard  *)
(* files carry any of three names, two of which hold the same number, in   *)
(* any order of the directory listing (SpecDiscover).                      *)
(***************************************************************************)
\* File names that pass the shard-*.bin test with a numeric middle part.
ShardNames == {"shard-0.bin", "shard-1.bin", "shard-01.bin"}

\* FCString::Atoi of the name's part between "shard-" and ".bin".
FileIndexOf(name) == IF name = "shard-0.bin" THEN 0 ELSE 1

\* The listings IterateDirectory can report: distinct names in any order.
DirectoryListings ==
    {names \in UNION {[1..n -> ShardNames] : n \in 1..3} :
        \A i, j \in DOMAIN names : names[i] = names[j] => i = j}

\* A dataset directory with the listed shard files: file i holds the header and
\* the entries of interval gs[i] and the magic tag magics[i].
DiscoverDataset(names, gs, magics) ==
    LET tms == <<TrajectoryMeta(9, 0, GenericMeta.LastTimeStep)>>
    IN  [Meta |-> GenericMeta, TrajMetas |-> tms,
         Files |-> [i \in DOMAIN names |->
                      ShardFile(GenericMeta, tms, [id \in {9} |-> {}],
                                FileIndexOf(names[i]), gs[i], magics[i])]]

DatasetsDiscover ==
    UNION {{DiscoverDataset(names, gs, magics) :
               gs \in [DOMAIN names -> {0, 1}],
               magics \in [DOMAIN names -> {"TDDB", "XXXX"}]} :
           names \in DirectoryListings}

InitDiscover ==
    /\ ds \in DatasetsDiscover
    /\ TotalPhysicalMemory = 4096
    /\ InitLoader

DiscoverCall ==
    calls = 0 /\ SyncBegin(LoadParams(-1, -1, 1, "FirstN", 1, <<>>))

NextDiscover == DiscoverCall \/ SyncExtract \/ SyncCommit

SpecDiscover == InitDiscover /\ [][NextDiscover]_vars

\* The table entry of the file at position f of the directory: the time range
\* of the interval its header names.
DiscoveredAs(info, f) ==
    /\ info.FilePath = f
    /\ info.GlobalIntervalIndex = ds.Files[f].GlobalIntervalIndex
    /\ info.StartTimeStep = ds.Meta.FirstTimeStep
          + ds.Files[f].GlobalIntervalIndex * ds.Meta.TimeStepIntervalSize
    /\ info.EndTimeStep = info.StartTimeStep + ds.Meta.TimeStepIntervalSize - 1

\* C22: the shard table of a load holds one entry for every shard file whose
\* header passes validation, with the time range of the header's interval,
\* and no entry for a file whose header fails validation.
C22_DiscoveryComplete ==
    \A c \in Ctxs : PastDiscovery(c) =>
        LET table == load[c].ShardInfoTable
        IN  /\ \A f \in DOMAIN ds.Files :
                  ReadShardHeaderMapped(ds.Files[f]) =>
                     Cardinality({k \in DOMAIN table : DiscoveredAs(table[k], f)}) = 1
            /\ \A k \in DOMAIN table :
                  /\ ReadShardHeaderMapped(ds.Files[table[k].FilePath])
                  /\ DiscoveredAs(table[k], table[k].FilePath)

(***************************************************************************)
(* The parallel phase of a bulk load with the lock of its Add: a task      *)
(* that extracted samples takes its shard's mutex, adds them to the        *)
(* shard's TrajectorySamples and releases the mutex (SpecExtract).  In the *)
(* other specifications the three are the one step ExtractTask.            *)
(***************************************************************************)
\* The holders of mutex m of load c: <<c, m, i, k>> is task (i, k) holding it.
HoldersOf(c, m) == {h \in shardMutex : h[1] = c /\ h[2] = m}

\* An extraction task whose trajectory has no samples in the shard returns
\* without touching the shard's results.
ExtractNothing(c, i, k) ==
    /\ load[c].phase = "shards"
    /\ <<i, k>> \in ExtractionTasks(load[c])
    /\ TaskSamples(load[c], ds, i, k) = <<>>
    /\ ExtractTask(c, i, k)

\* FScopeLock Lock(&ShardResult.Mutex) of a task that extracted samples.
ExtractLock(c, i, k) ==
    /\ Alive
    /\ load[c].phase = "shards"
    /\ <<i, k>> \in ExtractionTasks(load[c]) \ load[c].done
    /\ TaskSamples(load[c], ds, i, k) # <<>>
    /\ \A h \in shardMutex : ~(h[1] = c /\ h[3] = i /\ h[4] = k)
    /\ HoldersOf(c, MutexOf(i)) = {}
    /\ shardMutex' = shardMutex \cup {<<c, MutexOf(i), i, k>>}
    /\ UNCHANGED <<ds, query, queryTasks, estCall, TotalPhysicalMemory, EstimatedMemoryUsage,
                   LoadedDatasets, CurrentMemoryUsage, bIsLoadingAsync,
                   AsyncLoadTask, LoadMutex, load, gamePc, waitFor, gameQueue,
                   completions, calls, lastAsync>>

\* ShardResult.TrajectorySamples.Add(TrajId, MoveTemp(ShardSamples)) and the end
\* of the lock's scope.
ExtractAdd(c, i, k) ==
    /\ Alive
    /\ <<c, MutexOf(i), i, k>> \in shardMutex
    /\ load' = [load EXCEPT ![c] = AfterExtract(@, ds, i, k)]
    /\ shardMutex' = shardMutex \ {<<c, MutexOf(i), i, k>>}
    /\ UNCHANGED <<ds, query, queryTasks, estCall, TotalPhysicalMemory, EstimatedMemoryUsage,
                   LoadedDatasets, CurrentMemoryUsage, bIsLoadingAsync,
                   AsyncLoadTask, LoadMutex, gamePc, waitFor, gameQueue,
                   completions, calls, lastAsync>>

\* Both trajectories of a two-shard dataset, at each sample rate.
DatasetsExtract ==
    {GenericDataset(life, {}, layout, NoFault) :
        life \in Lifetimes, layout \in Layouts}

ParamsExtract ==
    {LoadParams(-1, -1, rate, "FirstN", 2, <<>>) : rate \in 1..MaxSampleRate}

InitExtract ==
    /\ ds \in DatasetsExtract
    /\ TotalPhysicalMemory = 4096
    /\ InitLoader

ExtractCall == calls = 0 /\ \E p \in ParamsExtract : SyncBegin(p)

NextExtract ==
    \/ ExtractCall
    \/ \E t \in ExtractionTasks(load[GameCtx]) :
          \/ ExtractNothing(GameCtx, t[1], t[2])
          \/ ExtractLock(GameCtx, t[1], t[2])
          \/ ExtractAdd(GameCtx, t[1], t[2])
    \/ SyncCommit

SpecExtract == InitExtract /\ [][NextExtract]_vars

DatasetsCompare ==
    UNION {{GenericDataset(life, gaps, layout, NoFault) :
               gaps \in GapsOf(life), layout \in Layouts} :
           life \in Lifetimes}

\* A time range inside the dataset's, the first n trajectories, every sample.
ParamsCompare ==
    {LoadParams(start, end, 1, "FirstN", n, <<>>) :
        start \in 0..GenericMeta.LastTimeStep,
        end \in 0..GenericMeta.LastTimeStep, n \in 1..2}

InitCompare ==
    /\ ds \in DatasetsCompare
    /\ TotalPhysicalMemory = 4096
    /\ InitLoader

CompareLoad ==
    calls = 0 /\ \E p \in ParamsCompare : p.StartTimeStep <= p.EndTimeStep /\ SyncBegin(p)

\* QueryTimeRangeAsync with the ids and the time range of the finished load.
CompareQuery ==
    /\ Loaded(GameCtx) /\ load[GameCtx].phase = "finished"
    /\ QueryAsync("TimeRange", load[GameCtx].TrajectoryIds,
                  load[GameCtx].Params.StartTimeStep,
                  load[GameCtx].Params.EndTimeStep)

NextCompare ==
    \/ CompareLoad \/ SyncExtract \/ SyncCommit
    \/ CompareQuery
    \/ QueryBegin \/ QueryShard \/ QueryEntry \/ QueryPost \/ QueryCallback

SpecCompare == InitCompare /\ [][NextCompare]_vars

\* What the load reports for a trajectory: its samples, each at the time step
\* it is stored for.
LoadReports(id) ==
    {<<s.t, s>> : s \in Range(load[GameCtx].Result.Trajectories[id].Samples)}

\* What the query reports for a trajectory: the slots that are not zero, each
\* at the time step of the slot.
QueryReports(id) ==
    LET S == query.delivered[1].TimeSeries[id].Samples
    IN  {<<query.StartTimeStep + r - 1, S[r]>> :
            r \in {x \in DOMAIN S : S[x] # ZeroVector}}

\* C24: a bulk load at sample rate 1 and a time range query of the same
\* dataset, trajectory ids and time range report a sample for the same time
\* steps, with the same positions.
C24_QueryMatchesBulk ==
    (Loaded(GameCtx) /\ Succeeded("TimeRange")) =>
        \A id \in Range(query.TrajectoryIds) :
            /\ id \in DOMAIN load[GameCtx].Result.Trajectories
            /\ id \in DOMAIN query.delivered[1].TimeSeries
            /\ LoadReports(id) = QueryReports(id)

(***************************************************************************)
(* Properties of the samples of a bulk load (SpecLoad).                    *)
(***************************************************************************)
\* C25: in every trajectory of a successful bulk load at sample rate 1 the
\* sample at (0-based) index i is the position stored for global time step
\* StartTimeStep + i, StartTimeStep being the loaded trajectory's field.
C25_TimeStepFromIndex ==
    \A c \in Ctxs : (Loaded(c) /\ load[c].Params.SampleRate = 1) =>
        \A id \in DOMAIN load[c].Result.Trajectories :
            LET Traj == load[c].Result.Trajectories[id]
            IN  \A i \in DOMAIN Traj.Samples :
                    /\ Traj.Samples[i].id = id
                    /\ Traj.Samples[i].t = Traj.StartTimeStep + (i - 1)

\* No shard entry of the dataset stores NaN inside its valid sample range.
NoNaNStored ==
    \A f \in DOMAIN ds.Files : \A e \in DOMAIN ds.Files[f].Entries :
        LET entry == ds.Files[f].Entries[e]
        IN  \A k \in DOMAIN entry.Positions :
                (/\ k >= entry.StartTimeStepInInterval
                 /\ k < entry.StartTimeStepInInterval + entry.ValidSampleCount)
                    => ~IsNaNSample(entry.Positions[k])

\* C26: when no stored position is NaN, any two consecutive samples of a
\* trajectory of a successful bulk load at sample rate r are positions stored
\* for time steps exactly r apart, samples of different shards included.
C26_StrideAcrossShards ==
    \A c \in Ctxs : (Loaded(c) /\ NoNaNStored) =>
        \A id \in DOMAIN load[c].Result.Trajectories :
            LET Samples == load[c].Result.Trajectories[id].Samples
            IN  \A i \in DOMAIN Samples :
                    i < Len(Samples) =>
                        Samples[i + 1].t - Samples[i].t = load[c].Params.SampleRate

(***************************************************************************)
(* Properties of asynchronous loads (Spec, FairSpec).                      *)
(***************************************************************************)
\* The thread of load task c exists and has not returned from Run.
ThreadRuns(c) == load[c].phase \in {"start", "shards", "returned"}

\* Load task c was started and has neither completed nor been cancelled.
InProgress(c) == ThreadRuns(c) /\ ~load[c].bShouldStop

\* The step creates a load task (and with it the task's thread).
StartsTask == \E c \in Tasks : load[c].phase = "none" /\ load'[c].phase = "start"

\* C27: while a started asynchronous load has neither completed nor been
\* cancelled no step creates a new load task; at most one load task thread
\* exists at a time; and, seen by a caller on the game thread, bIsLoadingAsync
\* is true while such a load is in progress and false when no task thread
\* exists and no completion is waiting to be delivered.
C27_OneLoadAtATime ==
    [][/\ (\E c \in Tasks : InProgress(c)) => ~StartsTask
       /\ Cardinality({c \in Tasks : ThreadRuns(c)}) <= 1
       /\ gamePc = "idle" =>
             /\ (\E c \in Tasks : InProgress(c)) => bIsLoadingAsync
             /\ bIsLoadingAsync =>
                   \/ \E c \in Tasks : ThreadRuns(c)
                   \/ gameQueue # <<>>]_vars

\* C30: CancelAsyncLoad always returns: a call that waits for the load thread,
\* holding LoadMutex, is followed by its return; and when it returns the
\* thread it waited for has finished, no task is left and bIsLoadingAsync is
\* false.
C30_CancelReturns ==
    /\ (gamePc = "cancel_wait") ~> (gamePc = "idle")
    /\ [][(gamePc = "cancel_wait" /\ gamePc' # "cancel_wait") =>
             /\ gamePc' = "idle"
             /\ ThreadFinished(waitFor)
             /\ AsyncLoadTask' = 0
             /\ ~bIsLoadingAsync'
             /\ LoadMutex' = {}]_vars

\* CancelAsyncLoad holds LoadMutex and waits while the thread of the load is
\* in the parallel phase of LoadTrajectoriesInternal.
C30_Witness ==
    /\ gamePc = "cancel_wait"
    /\ LoadMutex = {GameCtx}
    /\ load[waitFor].phase = "shards"
    /\ load[waitFor].bShouldStop

(***************************************************************************)
(* The loader with the commit of a background load as the two statements   *)
(* it is, LoadedDatasets.Add(...) and CurrentMemoryUsage += MemoryUsed:    *)
(* the task thread holds no lock, so the game thread can run between them  *)
(* (SpecCommit).                                                           *)
(***************************************************************************)
\* The merge and LoadedDatasets.Add(MoveTemp(LoadedDataset)) of load task c.
CommitAdd(c) ==
    /\ Alive
    /\ c \in Tasks /\ load[c].phase = "shards"
    /\ load[c].done = ExtractionTasks(load[c])
    /\ LET trajs == MergedTrajectories(load[c], ds)
           entry == LoadedDataset(load[c], trajs)
       IN  /\ LoadedDatasets' = Append(LoadedDatasets, entry)
           /\ load' = [load EXCEPT ![c] =
                  [@ EXCEPT !.phase = "added",
                            !.Result = LoadResult(FALSE, "", trajs,
                                           entry.MemoryUsedBytes,
                                           load[c].StartTime, load[c].EndTime)]]
    /\ UNCHANGED <<ds, query, queryTasks, estCall, shardMutex, TotalPhysicalMemory,
                   EstimatedMemoryUsage, CurrentMemoryUsage, bIsLoadingAsync,
                   AsyncLoadTask, LoadMutex, gamePc, waitFor, gameQueue,
                   completions, calls, lastAsync>>

\* CurrentMemoryUsage += MemoryUsed and Result.bSuccess = true of load task c.
CommitUsage(c) ==
    /\ Alive
    /\ c \in Tasks /\ load[c].phase = "added"
    /\ CurrentMemoryUsage' = CurrentMemoryUsage + load[c].Result.MemoryUsedBytes
    /\ load' = [load EXCEPT ![c] = [@ EXCEPT !.phase = "returned",
                                             !.Result.bSuccess = TRUE]]
    /\ UNCHANGED <<ds, query, queryTasks, estCall, shardMutex, TotalPhysicalMemory,
                   EstimatedMemoryUsage, LoadedDatasets, bIsLoadingAsync,
                   AsyncLoadTask, LoadMutex, gamePc, waitFor, gameQueue,
                   completions, calls, lastAsync>>

TaskCommitAdd == \E c \in Tasks : CommitAdd(c)
TaskCommitUsage == \E c \in Tasks : CommitUsage(c)

NextCommit ==
    \/ SyncCall \/ SyncExtract \/ SyncCommit
    \/ AsyncLoad \/ CancelAsyncLoad \/ WaitEnd
    \/ UnloadLock \/ UnloadAll
    \/ TaskRunBegin \/ TaskExtract \/ TaskCommitAdd \/ TaskCommitUsage
    \/ TaskRunPost
    \/ GameCallback

SpecCommit == Init /\ [][NextCommit]_vars

\* The sum of MemoryUsedBytes over the loaded datasets.
LoadedSum(datasets) ==
    SumOver([i \in DOMAIN datasets |-> datasets[i].MemoryUsedBytes], DOMAIN datasets)

\* The step is one of load c's own, c having been told to stop or having failed.
StepOfStoppedOrFailed(c) ==
    /\ load'[c] # load[c]
    /\ load[c].phase \in {"start", "shards", "added", "returned"}
    /\ load[c].bShouldStop \/ (load'[c].phase = "returned" /\ ~load'[c].Result.bSuccess)

\* No call is in progress on the game thread and no load task thread runs.
Quiescent ==
    /\ gamePc = "idle"
    /\ \A c \in Tasks : load[c].phase \in {"none", "finished"}

\* C28: when no load or unload is in progress, CurrentMemoryUsage is the sum
\* of MemoryUsedBytes over LoadedDatasets; a step of a load that fails or was
\* cancelled changes neither; UnloadAll leaves LoadedDatasets empty and
\* CurrentMemoryUsage zero.
C28_UsageIsSumOfLoaded ==
    [][/\ Quiescent' => CurrentMemoryUsage' = LoadedSum(LoadedDatasets')
       /\ \A c \in Tasks : StepOfStoppedOrFailed(c) =>
             UNCHANGED <<LoadedDatasets, CurrentMemoryUsage>>
       /\ UnloadStep => (LoadedDatasets' = <<>> /\ CurrentMemoryUsage' = 0)]_vars

(***************************************************************************)
(* The list of query tasks of FTrajectoryDataCppApi: accepted calls of     *)
(* QuerySingleTimeStepAsync / QueryTimeRangeAsync, each cleaning up the    *)
(* completed tasks and adding a new one, the threads of the tasks, and the *)
(* game thread running the posted callbacks (SpecTasks).  The query a task *)
(* executes is one step here; SpecQuery has its steps.                     *)
(***************************************************************************)
notQueryTasks ==
    <<ds, query, TotalPhysicalMemory, EstimatedMemoryUsage, LoadedDatasets,
      CurrentMemoryUsage, bIsLoadingAsync, AsyncLoadTask, LoadMutex, load,
      gamePc, waitFor, gameQueue, completions, calls, lastAsync, estCall,
      shardMutex>>

\* A task as MakeShared<FTrajectoryQueryTask> leaves it: its thread started, the
\* task about to be added to ActiveTasks.  posted: its callback lambda, which
\* holds the raw pointer this, is in the game thread's queue; callbacks: the
\* times its callback was executed; freed: what running the lambda did when
\* the task was already destroyed.
NewQueryTask ==
    [pc |-> "run", bIsComplete |-> FALSE, posted |-> FALSE, active |-> TRUE,
     destroyed |-> FALSE, callbacks |-> 0, freed |-> "none"]

\* CleanupCompletedTasks: ActiveTasks.RemoveAll(IsComplete); the list held the
\* only reference, so a removed task is destroyed (its destructor waits for
\* the thread, which after bIsComplete = true only returns).
CleanupCompletedTasks(tasks) ==
    [i \in DOMAIN tasks |->
        IF tasks[i].active /\ tasks[i].bIsComplete
        THEN [tasks[i] EXCEPT !.active = FALSE, !.destroyed = TRUE]
        ELSE tasks[i]]

\* An accepted QuerySingleTimeStepAsync or QueryTimeRangeAsync call.
TaskQueryAsync ==
    /\ Len(queryTasks) < MaxQueryTasks
    /\ queryTasks' = Append(CleanupCompletedTasks(queryTasks), NewQueryTask)
    /\ UNCHANGED notQueryTasks

\* Run: ExecuteSingleTimeStepQuery() or ExecuteTimeRangeQuery().
TaskExecute(i) ==
    /\ queryTasks[i].pc = "run"
    /\ queryTasks' = [queryTasks EXCEPT ![i].pc = "executed"]
    /\ UNCHANGED notQueryTasks

\* Run: InvokeCallbackOnGameThread() posts the lambda [this]() {...}.
TaskInvoke(i) ==
    /\ queryTasks[i].pc = "executed"
    /\ queryTasks' = [queryTasks EXCEPT ![i].pc = "posted", ![i].posted = TRUE]
    /\ UNCHANGED notQueryTasks

\* Run: bIsComplete = true; return 0.
TaskSetComplete(i) ==
    /\ queryTasks[i].pc = "posted"
    /\ queryTasks' = [queryTasks EXCEPT ![i].pc = "complete",
                                        ![i].bIsComplete = TRUE]
    /\ UNCHANGED notQueryTasks

\* The game thread runs the lambda of a task that exists: the callback executes.
TaskCallback(i) ==
    /\ queryTasks[i].posted /\ ~queryTasks[i].destroyed
    /\ queryTasks' = [queryTasks EXCEPT ![i].posted = FALSE,
                                        ![i].callbacks = @ + 1]
    /\ UNCHANGED notQueryTasks

\* The game thread runs the lambda of a task that was destroyed: it reads
\* QueryType, the delegate and the result through a dangling pointer, and
\* executes the callback on what it finds, skips it, or crashes.
TaskCallbackFreed(i) ==
    /\ queryTasks[i].posted /\ queryTasks[i].destroyed
    /\ \E outcome \in {"ran", "skipped", "crashed"} :
          queryTasks' = [queryTasks EXCEPT
                            ![i].posted = FALSE, ![i].freed = outcome,
                            ![i].callbacks = IF outcome = "ran" THEN @ + 1 ELSE @]
    /\ UNCHANGED notQueryTasks

InitTasks ==
    /\ ds = GenericDataset(<<0, GenericMeta.LastTimeStep>>, {}, <<0, 1>>, NoFault)
    /\ TotalPhysicalMemory = 4096
    /\ InitLoader

NextTasks ==
    \/ TaskQueryAsync
    \/ \E i \in DOMAIN queryTasks :
          \/ TaskExecute(i) \/ TaskInvoke(i) \/ TaskSetComplete(i)
          \/ TaskCallback(i) \/ TaskCallbackFreed(i)

SpecTasks == InitTasks /\ [][NextTasks]_vars

\* C29: a query task is destroyed only after its callback has run; no
\* callback lambda runs on a destroyed task; and the callback of a task is
\* executed at most once, exactly once when its lambda has run.
C29_CallbackBeforeDestroy ==
    \A i \in DOMAIN queryTasks :
        LET t == queryTasks[i]
        IN  /\ t.destroyed => (t.callbacks = 1 /\ ~t.posted)
            /\ t.freed = "none"
            /\ t.callbacks <= 1
            /\ (t.pc \in {"posted", "complete"} /\ ~t.posted) => t.callbacks = 1

====
